---------------------------- MODULE Spec2Model ----------------------------
(***************************************************************************)
(* A model of node-package-updater's dependency-resolution engine:         *)
(*   - the semver comparison (package semver),                             *)
(*   - the version selector (VersionManager.GetUpdatedVersion),            *)
(*   - the per-dependency lookup (Dependency.FetchNewVersion) over the     *)
(*     two-tier cache and the registry,                                    *)
(*   - the fan-out of FetchNewVersions: semaphore, WaitGroup, the          *)
(*     goroutine that closes the two progress channels, and the tasks,     *)
(*   - the cache on its own: a Versions value saved and restored, and      *)
(*     concurrent calls of Cache.Set and Cache.Get,                        *)
(*   - the registry client: parseNpmrc and makeRegistryRequest,            *)
(*   - one run of a command from main: the manifest loader and rewriter,   *)
(*     the interactive selector, the unused-dependency check and the       *)
(*     exit status,                                                        *)
(*   - FetchNewVersionsBatch over the channels of its caller,              *)
(*   - the deadline of a task and the parser of package semver, each       *)
(*     applied to one input,                                               *)
(*   - the progress bar of ProcessDependencies,                            *)
(*   - the pipeline of one registry group (ProcessByRegistry).             *)
(*                                                                         *)
(* Strings that the code compares byte-wise are sequences of character     *)
(* ranks: the digits '0'..'9' are 0..9 and the letters 'a', 'b', ... are   *)
(* 10, 11, ..., which keeps the ASCII order of the characters used.        *)
(***************************************************************************)
EXTENDS Integers, Sequences, FiniteSets, TLC

VARIABLES
    \* ---- FetchNewVersions (updater.go) ----
    flags,        \* the cli.Flags record of the run
    mainPc,       \* position of FetchNewVersions itself
    nextDep,      \* index of the next dependency of the launch loop
    sem,          \* number of tokens held in the semaphore channel
    wg,           \* the WaitGroup counter
    closerPc,     \* position of the goroutine that closes the channels
    tpc,          \* position of each dependency's task
    ctxDone,      \* per task: its context's deadline has passed
    processed,    \* the 'finished' channel: [len, closed]
    currentPackage, \* the 'started' channel: [len, closed]
    panicked,     \* the process has panicked (send on / close of a closed
                  \* channel, WaitGroup reuse)
    memProcessed, \* MemoryOptimizer.processed
    \* ---- Dependency.FetchNewVersion (dependency package) ----
    deps,         \* the Dependency records
    memCache,     \* Cache.memCache: key -> <<>> or <<value>>
    db,           \* Cache.db (on disk): key -> <<>> or <<value>>
    loc,          \* per task: locals of FetchNewVersion and its history
    faults,       \* number of failures the environment has injected so far
    \* ---- the selector on its own (version.go) ----
    selPc, selCur, selVersions, selFlags, selResult,
    \* ---- the cache on its own (cache.go, Versions.Save and Restore) ----
    stPc,         \* position of the save/restore round trip
    stOrig,       \* the Versions value handed to Save
    stRestored,   \* the Versions value Restore has built
    setPc,        \* position of each concurrent caller of Cache.Set
    setVal,       \* the payload of each caller
    getPc,        \* position of a concurrent caller of Cache.Get
    getVal,       \* what it read from the disk and what it returns
    \* ---- the registry client on its own (makeRegistryRequest) ----
    cliPc,        \* position of one Head or Get call
    cliCall,      \* its inputs: method, package name, the .npmrc file
    cliConfig,    \* the NpmrcConfig parseNpmrc has built
    cliSent,      \* the HTTP requests put on the wire, in order
    cliResult,    \* what the call returned
    \* ---- one run of a command (cmd, packagejson, ui, checkdeps) ----
    runPc,        \* position of the run
    runFlags,     \* the cli.Flags of the run
    runEnv,       \* what the run meets: the manifest file, failures
    pkgFile,      \* the manifest on disk: an ordered document
    allDeps,      \* the Dependency records built from the manifest
    ui,           \* the model of the interactive selector
    writes,       \* number of times the manifest file was written
    installs,     \* number of times the package manager's install ran
    exitStatus,   \* the exit status of the process
    results,      \* the CheckResults of the dependency analysis
    \* ---- FetchNewVersionsBatch (updater.go) ----
    bMain,        \* position of FetchNewVersionsBatch itself
    bNext,        \* index of the next batch of the launch loop
    bSem,         \* tokens held in its semaphore channel
    bWg,          \* its WaitGroup counter
    bFn,          \* per batch: position of its goroutine's FetchNewVersions
    bTask,        \* per batch: position of the task of a dependency of it
    bCloser,      \* per batch: position of the closing goroutine of the call
    bChans,       \* the two channels the calls share: [closed, closes]
    bPanic,       \* "" or the panic that ended the process
    \* ---- a function applied to one input (semver parse, the deadline) ----
    fnPc,         \* "ready" before the call, "done" after it
    fnIn,         \* [fn, arg]: the function and its argument
    fnOut,        \* what it returned
    \* ---- the progress bar of ProcessDependencies (packagejson, ui) ----
    pgMain,       \* position of ProcessDependencies
    pgTask,       \* per dependency: position of the worker that has its job
    pgChans,      \* number of values buffered in each progress channel
    pgLoop,       \* position of the goroutine that feeds the bar
    pgCount,      \* its counter currentProcessed
    pgSome,       \* someNewVersion
    pgBar,        \* the progressModel, and the percentages it was sent
    \* ---- the pipeline of one registry group (pipeline.go) ----
    plCaller,     \* position of the goroutine of ProcessByRegistry for the
                  \* group ("main") and of a caller of Cleanup ("cleanup")
    plFeed,       \* the goroutine of ProcessDependencies: [pc, next]
    plWorker,     \* position of each worker
    plChans,      \* input, output, errors: [len, closed, closes]
    plColl,       \* the two collecting goroutines and what they have got
    plCtx,        \* p.ctx has been cancelled
    plPanic       \* "" or the panic that ended the process

engineVars == <<flags, mainPc, nextDep, sem, wg, closerPc, tpc, ctxDone,
                processed, currentPackage, panicked, memProcessed,
                deps, memCache, db, loc, faults>>
selVars == <<selPc, selCur, selVersions, selFlags, selResult>>
storeVars == <<stPc, stOrig, stRestored, setPc, setVal, getPc, getVal>>
clientVars == <<cliPc, cliCall, cliConfig, cliSent, cliResult>>
runVars == <<runPc, runFlags, runEnv, pkgFile, allDeps, ui, writes, installs,
            exitStatus, results>>
batchVars == <<bMain, bNext, bSem, bWg, bFn, bTask, bCloser, bChans, bPanic>>
fnVars == <<fnPc, fnIn, fnOut>>
barVars == <<pgMain, pgTask, pgChans, pgLoop, pgCount, pgSome, pgBar>>
pipeVars == <<plCaller, plFeed, plWorker, plChans, plColl, plCtx, plPanic>>
sideVars == <<batchVars, fnVars, barVars, pipeVars>>
\* the parts other than the one a specification exercises
sideButBatch == <<fnVars, barVars, pipeVars>>
sideButFn == <<batchVars, barVars, pipeVars>>
sideButBar == <<batchVars, fnVars, pipeVars>>
sideButPipe == <<batchVars, fnVars, barVars>>
vars == <<flags, mainPc, nextDep, sem, wg, closerPc, tpc, ctxDone,
          processed, currentPackage, panicked, memProcessed,
          deps, memCache, db, loc, faults,
          selPc, selCur, selVersions, selFlags, selResult,
          stPc, stOrig, stRestored, setPc, setVal, getPc, getVal,
          cliPc, cliCall, cliConfig, cliSent, cliResult,
          runPc, runFlags, runEnv, pkgFile, allDeps, ui, writes, installs,
          exitStatus, results,
          sideVars>>

----------------------------------------------------------------------------
(* Bounds of the model. *)

\* number of dependencies handed to FetchNewVersions
NDeps == 2
\* largest value of flags.CPUs that is tried
MaxCPUs == 2
\* capacity of each of the two progress channels
ChanCap == 1
\* longest candidate list handed to the selector on its own
MaxCands == 2
\* number of versions from which an encoded collection is longer than
\* 1024 bytes and worth compressing
BigDoc == 2
\* number of failures of the environment (a cache read or write error, a
\* failed HEAD or GET, a deadline that passes) in one run
MaxFaults == 1

----------------------------------------------------------------------------
(* Strings and package semver.                                             *)

Min(a, b) == IF a < b THEN a ELSE b

\* Go's x < y on strings: byte-wise lexicographic order.
RECURSIVE StrLess(_, _)
StrLess(x, y) ==
    IF y = <<>> THEN FALSE
    ELSE IF x = <<>> THEN TRUE
    ELSE IF Head(x) # Head(y) THEN Head(x) < Head(y)
    ELSE StrLess(Tail(x), Tail(y))

isNum(v) == \A i \in 1..Len(v) : v[i] <= 9

compareInt(x, y) ==
    IF x = y THEN 0
    ELSE IF Len(x) < Len(y) THEN -1
    ELSE IF Len(x) > Len(y) THEN 1
    ELSE IF StrLess(x, y) THEN -1
    ELSE 1

\* The loop of comparePrerelease over the dot-separated identifiers of x
\* and y, from identifier i on.
RECURSIVE comparePrereleaseFrom(_, _, _)
comparePrereleaseFrom(x, y, i) ==
    IF i > Len(x) \/ i > Len(y)
    THEN (IF i > Len(x) THEN -1 ELSE 1)
    ELSE LET dx == x[i]
             dy == y[i]
         IN  IF dx # dy
             THEN LET ix == isNum(dx)
                      iy == isNum(dy)
                  IN  IF ix # iy THEN (IF ix THEN -1 ELSE 1)
                      ELSE IF ix /\ Len(dx) < Len(dy) THEN -1
                      ELSE IF ix /\ Len(dx) > Len(dy) THEN 1
                      ELSE IF StrLess(dx, dy) THEN -1
                      ELSE 1
             ELSE comparePrereleaseFrom(x, y, i + 1)

comparePrerelease(x, y) ==
    IF x = y THEN 0
    ELSE IF x = <<>> THEN 1
    ELSE IF y = <<>> THEN -1
    ELSE comparePrereleaseFrom(x, y, 1)

\* Version.Compare
Compare(v, w) ==
    IF ~v.isValid /\ ~w.isValid THEN 0
    ELSE IF ~v.isValid THEN -1
    ELSE IF ~w.isValid THEN 1
    ELSE IF compareInt(v.major, w.major) # 0 THEN compareInt(v.major, w.major)
    ELSE IF compareInt(v.minor, w.minor) # 0 THEN compareInt(v.minor, w.minor)
    ELSE IF compareInt(v.patch, w.patch) # 0 THEN compareInt(v.patch, w.patch)
    ELSE comparePrerelease(v.prerelease, w.prerelease)

\* Version.Prerelease: the empty string for an invalid version.
Prerelease(v) == IF ~v.isValid THEN <<>> ELSE v.prerelease

\* A Version value: the semver fields and the registry metadata.
Ver(maj, min, pat, pre) ==
    [prefix |-> "", major |-> maj, minor |-> min, patch |-> pat,
     prerelease |-> pre, build |-> <<>>, isValid |-> TRUE, weight |-> 0,
     deprecated |-> FALSE]

InvalidVer ==
    [prefix |-> "", major |-> <<>>, minor |-> <<>>, patch |-> <<>>,
     prerelease |-> <<>>, build |-> <<>>, isValid |-> FALSE, weight |-> 0,
     deprecated |-> FALSE]

\* Version.StringWithPrefix: the range operator followed by the version.
StringWithPrefix(v) ==
    [operator |-> v.prefix,
     version |-> <<v.major, v.minor, v.patch, v.prerelease, v.build>>]

\* Version.SetPrefix
SetPrefix(v, p) == [v EXCEPT !.prefix = p]

\* Version.Check: whether v satisfies the constraint that cur's range
\* operator implies.
Check(cur, v) ==
    CASE cur.prefix = "^" ->
            IF cur.major # <<0>> THEN v.major = cur.major
            ELSE IF cur.minor # <<0>>
                 THEN v.major = cur.major /\ v.minor = cur.minor
                 ELSE v.major = cur.major /\ v.minor = cur.minor
                      /\ v.patch = cur.patch
      [] cur.prefix = "~" -> v.major = cur.major /\ v.minor = cur.minor
      [] cur.prefix \in {">=", ">"} -> Compare(v, cur) >= 0
      [] OTHER -> Compare(v, cur) = 0


----------------------------------------------------------------------------
(* The version selector: VersionManager (version.go).                      *)

\* A NewVersionManager that leaves the candidates as they are.
NewVersionManager_NoPrefix(currentVersion, versions, fl) ==
    [currentVersion |-> currentVersion, versions |-> versions]

\* NewVersionManager: with KeepRangeOperator every candidate is given the
\* current version's range operator (the Version objects are shared with
\* the Versions collection they came from).
NewVersionManager(currentVersion, versions, fl) ==
    [currentVersion |-> currentVersion,
     versions |-> IF fl.KeepRangeOperator
                  THEN [i \in 1..Len(versions) |->
                            SetPrefix(versions[i], currentVersion.prefix)]
                  ELSE versions]

determineUpdateType(fl) ==
    IF fl.Patch THEN "Patch" ELSE IF fl.Minor THEN "Minor" ELSE "Major"

isValidVersionUpdate_NoCompare(cur, v, fl) ==
    /\ ~(fl.MaintainSemver /\ ~Check(cur, v))
    /\ ~(Prerelease(v) # <<>> /\ ~fl.Pre)

isValidVersionUpdate_NoPre(cur, v, fl) ==
    /\ ~(Compare(v, cur) <= 0)
    /\ ~(fl.MaintainSemver /\ ~Check(cur, v))

isValidVersionUpdate(cur, v, fl) ==
    /\ ~(Compare(v, cur) <= 0)
    /\ ~(fl.MaintainSemver /\ ~Check(cur, v))
    /\ ~(Prerelease(v) # <<>> /\ ~fl.Pre)

isValidUpdateType_Any(cur, v, updateType) == TRUE

isValidUpdateType(cur, v, updateType) ==
    CASE updateType = "Patch" -> cur.major = v.major /\ cur.minor = v.minor
      [] updateType = "Minor" -> cur.major = v.major
      [] OTHER -> TRUE

\* A loop that keeps the lowest candidate that passes instead of the
\* highest.
RECURSIVE GetUpdatedScan_Lowest(_, _, _, _)
GetUpdatedScan_Lowest(vm, fl, i, latest) ==
    IF i > Len(vm.versions) THEN latest
    ELSE LET v == vm.versions[i]
         IN  IF ~isValidVersionUpdate(vm.currentVersion, v, fl)
                THEN GetUpdatedScan_Lowest(vm, fl, i + 1, latest)
             ELSE IF ~isValidUpdateType(vm.currentVersion, v,
                                        determineUpdateType(fl))
                THEN GetUpdatedScan_Lowest(vm, fl, i + 1, latest)
             ELSE IF latest = <<>> \/ Compare(v, latest[1]) < 0
                THEN GetUpdatedScan_Lowest(vm, fl, i + 1, <<v>>)
             ELSE GetUpdatedScan_Lowest(vm, fl, i + 1, latest)

\* The loop of GetUpdatedVersion from candidate i on; latest is <<>> (nil)
\* or <<v>>.
RECURSIVE GetUpdatedScan(_, _, _, _)
GetUpdatedScan(vm, fl, i, latest) ==
    IF i > Len(vm.versions) THEN latest
    ELSE LET v == vm.versions[i]
         IN  IF ~isValidVersionUpdate(vm.currentVersion, v, fl)
                THEN GetUpdatedScan(vm, fl, i + 1, latest)
             ELSE IF ~isValidUpdateType(vm.currentVersion, v,
                                        determineUpdateType(fl))
                THEN GetUpdatedScan(vm, fl, i + 1, latest)
             ELSE IF latest = <<>> \/ Compare(v, latest[1]) > 0
                THEN GetUpdatedScan(vm, fl, i + 1, <<v>>)
             ELSE GetUpdatedScan(vm, fl, i + 1, latest)

\* GetUpdatedVersion: <<>> for nil, <<v>> for the version chosen.
GetUpdatedVersion(vm, fl) ==
    LET latestVersion == GetUpdatedScan(vm, fl, 1, <<>>)
    IN  IF latestVersion = <<>>
           \/ Compare(vm.currentVersion, latestVersion[1]) = 0
        THEN <<>>
        ELSE latestVersion

\* Versions.SetVersions sorts by descending Compare before it fills the
\* ordered map: the order Values() returns.
IsDescending(vs) ==
    \A i \in 1..Len(vs) : \A j \in 1..Len(vs) :
        i < j => Compare(vs[i], vs[j]) >= 0

----------------------------------------------------------------------------
(* The selector on its own: inputs drawn from a small universe.            *)

d0 == <<0>>
d1 == <<1>>
d2 == <<2>>
d9 == <<9>>
d10 == <<1, 0>>
idA == <<10>>
idB == <<11>>

\* 1.0.0 1.0.1 1.9.0 1.10.0 2.0.0-1 2.0.0-a 2.0.0-a.1 2.0.0-b 2.0.0
ValidVersions ==
    { Ver(d1, d0, d0, <<>>), Ver(d1, d0, d1, <<>>), Ver(d1, d9, d0, <<>>),
      Ver(d1, d10, d0, <<>>), Ver(d2, d0, d0, <<d1>>),
      Ver(d2, d0, d0, <<idA>>), Ver(d2, d0, d0, <<idA, d1>>),
      Ver(d2, d0, d0, <<idB>>), Ver(d2, d0, d0, <<>>) }

\* The candidates the registry marks as deprecated: 1.0.1 1.10.0 2.0.0
DeprecatedVersions ==
    { [v EXCEPT !.deprecated = TRUE] :
        v \in { Ver(d1, d0, d1, <<>>), Ver(d1, d10, d0, <<>>),
                Ver(d2, d0, d0, <<>>) } }

CandidateVersions == ValidVersions \cup DeprecatedVersions \cup {InvalidVer}

Prefixes == {"", "^", "~", ">=", ">"}

CurrentVersions ==
    { SetPrefix(v, p) : v \in ValidVersions, p \in Prefixes }

SelectorFlags ==
    [Pre : BOOLEAN, Minor : BOOLEAN, Patch : BOOLEAN,
     MaintainSemver : BOOLEAN, KeepRangeOperator : BOOLEAN,
     SkipDeprecated : BOOLEAN]

\* The candidate lists a Versions collection can hold: distinct versions
\* in descending order.
CandidateLists ==
    { vs \in UNION { [1..n -> CandidateVersions] : n \in 0..MaxCands } :
        /\ IsDescending(vs)
        /\ \A i \in 1..Len(vs) : \A j \in 1..Len(vs) :
              i # j => StringWithPrefix(vs[i]).version
                         # StringWithPrefix(vs[j]).version }

NoFlags ==
    [Pre |-> FALSE, Minor |-> FALSE, Patch |-> FALSE,
     MaintainSemver |-> FALSE, KeepRangeOperator |-> FALSE,
     SkipDeprecated |-> FALSE]

SelIdle ==
    /\ selPc = "off" /\ selCur = InvalidVer /\ selVersions = <<>>
    /\ selFlags = NoFlags /\ selResult = <<>>

SelInit ==
    /\ selPc = "ready"
    /\ selCur \in CurrentVersions
    /\ selVersions \in CandidateLists
    /\ selFlags \in SelectorFlags
    /\ selResult = <<>>

\* NewVersionManager followed by GetUpdatedVersion, as FetchNewVersion
\* calls them.
SelSelect ==
    /\ selPc = "ready"
    /\ selPc' = "done"
    /\ selResult' = GetUpdatedVersion(
           NewVersionManager(selCur, selVersions, selFlags), selFlags)
    /\ UNCHANGED <<selCur, selVersions, selFlags>>

\* updatePackageJSON in a non-interactive run: the entry of a dependency
\* is replaced by its next version when it has one (HaveToUpdate), and is
\* left as it is otherwise.
ManifestEntry(cur, next) ==
    IF next = <<>> THEN StringWithPrefix(cur) ELSE StringWithPrefix(next[1])

\* NewDependency on a manifest entry: the entry parsed as a version with
\* its range operator.
ParseEntry(e) ==
    [Ver(e.version[1], e.version[2], e.version[3], e.version[4])
        EXCEPT !.build = e.version[5], !.prefix = e.operator]

\* A second non-interactive run on the manifest the first run left, with
\* the same candidates and flags.
SelRerun ==
    /\ selPc = "done"
    /\ selPc' = IF selResult # <<>> THEN "rerunAfterWrite"
                ELSE "rerunUnchanged"
    /\ selCur' = ParseEntry(ManifestEntry(selCur, selResult))
    /\ selResult' = GetUpdatedVersion(
           NewVersionManager(selCur', selVersions, selFlags), selFlags)
    /\ UNCHANGED <<selVersions, selFlags>>


----------------------------------------------------------------------------
(* The registry, the cache and the Dependency records of a run.            *)

Deps == 1..NDeps

v100 == Ver(d1, d0, d0, <<>>)
v101 == Ver(d1, d0, d1, <<>>)

\* What the registry holds for every package of the run: the versions of
\* its document (SetVersions has sorted them), dist-tags.latest and the
\* ETag header of its answers.
RegistryVersions == <<v101, v100>>
RegistryLatest == v101
RegistryEtag == "e1"

\* NewDependency: the record the manifest loader hands over.  Odd
\* dependencies are behind the registry, even ones are up to date.
NewDependency(d) ==
    [PackageName |-> d,
     CurrentVersion |-> IF d % 2 = 1 THEN SetPrefix(v100, "^") ELSE v101,
     Versions |-> [isNil |-> FALSE, vs |-> <<>>],
     LatestVersion |-> <<>>,
     NextVersion |-> <<>>,
     HaveToUpdate |-> FALSE]

\* Cache keys: the package record key and the adjacent "<key>-etag" key.
VersionsKey(d) == <<d, "versions">>
EtagKey(d) == <<d, "etag">>
CacheKeys == { VersionsKey(d) : d \in Deps } \cup { EtagKey(d) : d \in Deps }

\* Cache values (bytes): an ETag text, a gob-encoded map of versionJson
\* records, or bytes that do not decode.
EtagBytes(e) == [kind |-> "text", text |-> e, m |-> {}]
GobBytes(m) == [kind |-> "gob", text |-> "", m |-> m]
JunkBytes == [kind |-> "junk", text |-> "", m |-> {}]

\* The version string of a Version: what the registry document calls it
\* (no range operator).
VersionStr(v) ==
    [v EXCEPT !.prefix = "", !.weight = 0, !.deprecated = FALSE]

\* Versions.Save: the map of versionJson records, gob-encoded.
SaveBytes(vs) ==
    GobBytes({ [Version |-> VersionStr(vs[i]), Weight |-> vs[i].weight,
                Deprecated |-> vs[i].deprecated] : i \in 1..Len(vs) })

\* The Version values Restore builds from a decoded map.
DecodedVersions(m) ==
    { [e.Version EXCEPT !.weight = e.Weight, !.deprecated = e.Deprecated] :
        e \in m }

\* The orders sort.Slice may leave a set of versions in: every descending
\* arrangement (versions that compare equal come in any order).
Arrangements(S) ==
    { vs \in [1..Cardinality(S) -> S] :
        /\ \A x \in S : \E i \in 1..Cardinality(S) : vs[i] = x
        /\ IsDescending(vs) }

\* Versions.SetVersions on an ordered map that holds `old`: a key that is
\* already there keeps its place and takes the new value, a new key is
\* appended.
RECURSIVE SetVersions(_, _)
SetVersions(old, new) ==
    IF new = <<>> THEN old
    ELSE LET v == Head(new)
             at == { i \in 1..Len(old) : VersionStr(old[i]) = VersionStr(v) }
         IN  IF at = {}
             THEN SetVersions(Append(old, v), Tail(new))
             ELSE SetVersions([old EXCEPT ![CHOOSE i \in at : TRUE] = v],
                              Tail(new))

\* A value is longer than 1024 bytes and gzip saves a fifth of it: in the
\* model, an encoded collection of BigDoc versions or more.
IsBig(data) == data.kind = "gob" /\ Cardinality(data.m) >= BigDoc

\* The marker byte 1 followed by the gzip stream of data.
Gz(data) == [kind |-> "gz", text |-> "", m |-> {data}]

\* Bytes that start with the value of the marker byte and do not go on as
\* a gzip stream.
MarkedBytes == [kind |-> "marked", text |-> "", m |-> {}]

\* What Set hands to the disk: compressIfBeneficial for a value of more
\* than 1024 bytes, the value itself otherwise.
compressIfBeneficial(data) == IF IsBig(data) THEN Gz(data) ELSE data

\* What Get makes of the bytes read from the disk: a value that starts
\* with the marker byte is decompressed when tryDecompress succeeds.
tryDecompress(data) ==
    IF data.kind = "gz" THEN (CHOOSE x \in data.m : TRUE) ELSE data

\* Cache.Has
Has(mem, disk, key) == mem[key] # <<>> \/ disk[key] # <<>>

\* Cache.Get: the outcomes [err, data, mem].  A key in memory is served
\* from memory; otherwise the disk is read, which may fail, and what was
\* read is stored in memory.
GetOutcomes(mem, disk, key) ==
    IF mem[key] # <<>>
    THEN { [err |-> FALSE, data |-> mem[key][1], mem |-> mem] }
    ELSE IF disk[key] = <<>>
    THEN { [err |-> TRUE, data |-> JunkBytes, mem |-> mem] }
    ELSE { [err |-> TRUE, data |-> JunkBytes, mem |-> mem],
           [err |-> FALSE, data |-> tryDecompress(disk[key][1]),
            mem |-> [mem EXCEPT ![key] = <<tryDecompress(disk[key][1])>>]] }

\* Cache.Set: the outcomes [err, mem, disk].  Memory is written first, with
\* the value as given, then the disk, with the value compressed when that
\* pays; the Put may fail.
SetOutcomes(mem, disk, key, data) ==
    { [err |-> FALSE, mem |-> [mem EXCEPT ![key] = <<data>>],
       disk |-> [disk EXCEPT ![key] = <<compressIfBeneficial(data)>>]],
      [err |-> TRUE, mem |-> [mem EXCEPT ![key] = <<data>>],
       disk |-> disk] }

\* Versions.Restore: the outcomes [err, vs, mem] for a collection that
\* holds `old`.
RestoreOutcomes(old, mem, disk, key) ==
    IF ~Has(mem, disk, key)
    THEN { [err |-> TRUE, vs |-> old, mem |-> mem] }
    ELSE UNION { IF g.err \/ g.data.kind # "gob"
                 THEN { [err |-> TRUE, vs |-> old, mem |-> g.mem] }
                 ELSE { [err |-> FALSE, vs |-> SetVersions(old, a),
                         mem |-> g.mem] :
                        a \in Arrangements(DecodedVersions(g.data.m)) } :
                 g \in GetOutcomes(mem, disk, key) }

\* The states of the on-disk store a run may start from.
StaleVersions == <<v100>>
InitialStores ==
    { [k \in CacheKeys |-> <<>>],
      [k \in CacheKeys |-> IF k[2] = "versions"
                           THEN <<compressIfBeneficial(
                                      SaveBytes(RegistryVersions))>>
                           ELSE <<EtagBytes(RegistryEtag)>>],
      [k \in CacheKeys |-> IF k[2] = "versions"
                           THEN <<compressIfBeneficial(
                                      SaveBytes(StaleVersions))>>
                           ELSE <<EtagBytes("e0")>>],
      [k \in CacheKeys |-> IF k[2] = "versions"
                           THEN <<JunkBytes>>
                           ELSE <<EtagBytes(RegistryEtag)>>],
      [k \in CacheKeys |-> IF k[2] = "versions"
                           THEN <<>>
                           ELSE <<EtagBytes(RegistryEtag)>>] }


----------------------------------------------------------------------------
(* FetchNewVersions (updater.go) and the tasks it launches.                *)

\* The goroutines that call Cache.Set on one key at the same time
\* (SetBatch starts one per operation).
NCallers == 2
Callers == 1..NCallers

\* The cache is not exercised on its own: no round trip, no caller of Set.
StoreIdle ==
    /\ stPc = "off" /\ stOrig = <<>> /\ stRestored = <<>>
    /\ setPc = [c \in Callers |-> "off"]
    /\ setVal = [c \in Callers |-> JunkBytes]
    /\ getPc = "off" /\ getVal = <<>>

\* No call of the registry client is followed on its own.
ClientIdle ==
    /\ cliPc = "off" /\ cliCall = <<>> /\ cliConfig = <<>>
    /\ cliSent = <<>> /\ cliResult = <<>>

\* No command is run from its entry point.
RunIdle ==
    /\ runPc = "off" /\ runFlags = <<>> /\ runEnv = <<>> /\ pkgFile = <<>>
    /\ allDeps = <<>> /\ ui = <<>> /\ writes = 0 /\ installs = 0
    /\ exitStatus = 0 /\ results = <<>>

\* FetchNewVersionsBatch is not called.
BatchIdle ==
    /\ bMain = "off" /\ bNext = 0 /\ bSem = 0 /\ bWg = 0 /\ bFn = <<>>
    /\ bTask = <<>> /\ bCloser = <<>> /\ bChans = <<>> /\ bPanic = ""

\* No function is applied on its own.
FnIdle == fnPc = "off" /\ fnIn = <<>> /\ fnOut = <<>>

\* ProcessDependencies does not show its progress bar.
BarIdle ==
    /\ pgMain = "off" /\ pgTask = <<>> /\ pgChans = <<>> /\ pgLoop = "off"
    /\ pgCount = 0 /\ pgSome = FALSE /\ pgBar = <<>>

\* No pipeline is started.
PipeIdle ==
    /\ plCaller = <<>> /\ plFeed = <<>> /\ plWorker = <<>> /\ plChans = <<>>
    /\ plColl = <<>> /\ plCtx = FALSE /\ plPanic = ""

\* None of the parts that are exercised on their own is.
SideIdle == BatchIdle /\ FnIdle /\ BarIdle /\ PipeIdle

\* numWorkers of FetchNewVersions: flags.CPUs, or four per host CPU when
\* it is not set, and never more than the dependencies.
NumWorkers(fl) ==
    Min(IF fl.CPUs <= 0 THEN fl.NumCPU * 4 ELSE fl.CPUs, NDeps)

EngineFlags ==
    { [CPUs |-> c, NumCPU |-> 1, Pre |-> FALSE, Minor |-> FALSE,
       Patch |-> FALSE, MaintainSemver |-> FALSE, KeepRangeOperator |-> TRUE,
       SkipDeprecated |-> TRUE] :
      c \in 0..MaxCPUs }

OpenChannel == [len |-> 0, closed |-> FALSE]

NewLocals ==
    [etag |-> "", err |-> "", heads |-> 0, gets |-> 0, warm |-> FALSE,
     headOk |-> FALSE, restored |-> FALSE, selected |-> FALSE,
     cacheFailed |-> FALSE, finished |-> ""]

Init ==
    /\ flags \in EngineFlags
    /\ mainPc = "acquire"
    /\ nextDep = 1
    /\ sem = 0
    /\ wg = 0
    /\ closerPc = "wait"
    /\ tpc = [d \in Deps |-> "idle"]
    /\ ctxDone = [d \in Deps |-> FALSE]
    /\ processed = OpenChannel
    /\ currentPackage = OpenChannel
    /\ panicked = FALSE
    /\ memProcessed = 0
    /\ deps = [d \in Deps |-> NewDependency(d)]
    /\ memCache = [k \in CacheKeys |-> <<>>]
    /\ db \in InitialStores
    /\ loc = [d \in Deps |-> NewLocals]
    /\ faults = 0
    /\ SelIdle
    /\ StoreIdle
    /\ ClientIdle
    /\ RunIdle /\ SideIdle

\* The positions of a task between its launch and the start of its
\* deferred function.
BodyPcs == {"sendStarted", "lookup", "head", "get", "setEtag", "save",
            "select", "sendFinished"}

\* ---- FetchNewVersions itself --------------------------------------------

\* The launch loop with a semaphore that never fills.
MainAcquire_NoSem ==
    /\ ~panicked /\ mainPc = "acquire"
    /\ IF nextDep > NDeps
       THEN mainPc' = "wait" /\ sem' = sem
       ELSE sem' = sem + 1 /\ mainPc' = "launch"
    /\ UNCHANGED <<faults, flags, nextDep, wg, closerPc, tpc, ctxDone, processed,
                   currentPackage, panicked, memProcessed, deps, memCache,
                   db, loc, selPc, selCur, selVersions, selFlags, selResult,
                   storeVars, clientVars, runVars, sideVars, sideVars>>

\* for _, dep := range deps { sem <- struct{}{} ...   (or, past the last
\* dependency, on to wg.Wait())
MainAcquire ==
    /\ ~panicked /\ mainPc = "acquire"
    /\ IF nextDep > NDeps
       THEN mainPc' = "wait" /\ sem' = sem
       ELSE sem < NumWorkers(flags) /\ sem' = sem + 1 /\ mainPc' = "launch"
    /\ UNCHANGED <<faults, flags, nextDep, wg, closerPc, tpc, ctxDone, processed,
                   currentPackage, panicked, memProcessed, deps, memCache,
                   db, loc, selPc, selCur, selVersions, selFlags, selResult,
                   storeVars, clientVars, runVars, sideVars, sideVars>>

\* wg.Add(1); go func(currentDep) {...}(dep)
MainLaunch ==
    /\ ~panicked /\ mainPc = "launch"
    /\ wg' = wg + 1
    /\ tpc' = [tpc EXCEPT ![nextDep] = "sendStarted"]
    /\ nextDep' = nextDep + 1
    /\ mainPc' = "acquire"
    /\ UNCHANGED <<faults, flags, sem, closerPc, ctxDone, processed, currentPackage,
                   panicked, memProcessed, deps, memCache, db, loc,
                   selPc, selCur, selVersions, selFlags, selResult,
                   storeVars, clientVars, runVars, sideVars, sideVars>>

\* A return that does not wait for the WaitGroup.
MainWait_NoWait ==
    /\ ~panicked /\ mainPc = "wait"
    /\ mainPc' = "returned"
    /\ UNCHANGED <<faults, flags, nextDep, sem, wg, closerPc, tpc, ctxDone, processed,
                   currentPackage, panicked, memProcessed, deps, memCache,
                   db, loc, selPc, selCur, selVersions, selFlags, selResult,
                   storeVars, clientVars, runVars, sideVars, sideVars>>

\* wg.Wait() at the end of FetchNewVersions
MainWait ==
    /\ ~panicked /\ mainPc = "wait"
    /\ wg = 0
    /\ mainPc' = "returned"
    /\ UNCHANGED <<faults, flags, nextDep, sem, wg, closerPc, tpc, ctxDone, processed,
                   currentPackage, panicked, memProcessed, deps, memCache,
                   db, loc, selPc, selCur, selVersions, selFlags, selResult,
                   storeVars, clientVars, runVars, sideVars, sideVars>>

\* ---- the goroutine that closes the channels ------------------------------

\* wg.Wait(): returns at once on a zero counter, blocks otherwise.
CloserWait ==
    /\ ~panicked /\ closerPc = "wait"
    /\ closerPc' = IF wg = 0 THEN "closeProcessed" ELSE "blocked"
    /\ UNCHANGED <<faults, flags, mainPc, nextDep, sem, wg, tpc, ctxDone, processed,
                   currentPackage, panicked, memProcessed, deps, memCache,
                   db, loc, selPc, selCur, selVersions, selFlags, selResult,
                   storeVars, clientVars, runVars, sideVars, sideVars>>

\* The waiter, woken by the Done that brought the counter to zero, resumes:
\* sync.WaitGroup panics ("reused before previous Wait has returned") when
\* it finds the counter raised again.
CloserResume ==
    /\ ~panicked /\ closerPc = "woken"
    /\ IF wg # 0
       THEN panicked' = TRUE /\ closerPc' = closerPc
       ELSE panicked' = panicked /\ closerPc' = "closeProcessed"
    /\ UNCHANGED <<faults, flags, mainPc, nextDep, sem, wg, tpc, ctxDone, processed,
                   currentPackage, memProcessed, deps, memCache,
                   db, loc, selPc, selCur, selVersions, selFlags, selResult,
                   storeVars, clientVars, runVars, sideVars, sideVars>>

\* close(processed)
CloserCloseProcessed ==
    /\ ~panicked /\ closerPc = "closeProcessed"
    /\ IF processed.closed
       THEN panicked' = TRUE /\ UNCHANGED <<processed, closerPc>>
       ELSE /\ processed' = [processed EXCEPT !.closed = TRUE]
            /\ closerPc' = "closeCurrent"
            /\ panicked' = panicked
    /\ UNCHANGED <<faults, flags, mainPc, nextDep, sem, wg, tpc, ctxDone,
                   currentPackage, memProcessed, deps, memCache,
                   db, loc, selPc, selCur, selVersions, selFlags, selResult,
                   storeVars, clientVars, runVars, sideVars, sideVars>>

\* close(currentPackage)
CloserCloseCurrent ==
    /\ ~panicked /\ closerPc = "closeCurrent"
    /\ IF currentPackage.closed
       THEN panicked' = TRUE /\ UNCHANGED <<currentPackage, closerPc>>
       ELSE /\ currentPackage' = [currentPackage EXCEPT !.closed = TRUE]
            /\ closerPc' = "done"
            /\ panicked' = panicked
    /\ UNCHANGED <<faults, flags, mainPc, nextDep, sem, wg, tpc, ctxDone,
                   processed, memProcessed, deps, memCache,
                   db, loc, selPc, selCur, selVersions, selFlags, selResult,
                   storeVars, clientVars, runVars, sideVars, sideVars>>


\* ---- the task of one dependency ------------------------------------------

\* The outcomes of
\*     select { case ch <- x: ; case <-ctx.Done(): return ; default: }
\* Go picks among the cases that can proceed, and a send on a closed
\* channel proceeds by panicking; default is taken when none can.
SelectSend(ch, done) ==
    (IF ~ch.closed /\ ch.len < ChanCap THEN {"sent"} ELSE {})
    \cup (IF ch.closed THEN {"panic"} ELSE {})
    \cup (IF done THEN {"return"} ELSE {})
    \cup (IF ~ch.closed /\ ch.len >= ChanCap /\ ~done THEN {"dropped"} ELSE {})

AfterSend(ch, o) == IF o = "sent" THEN [ch EXCEPT !.len = ch.len + 1] ELSE ch

\* What the cache would serve for a key.
Cached(key) ==
    IF memCache[key] # <<>> THEN memCache[key]
    ELSE IF db[key] # <<>> THEN <<tryDecompress(db[key][1])>>
    ELSE <<>>

\* The cache holds a decodable Versions entry and the registry's current
\* ETag for dependency d.
CacheWarm(d) ==
    /\ Cached(VersionsKey(d)) # <<>>
    /\ Cached(VersionsKey(d))[1].kind = "gob"
    /\ Cached(EtagKey(d)) # <<>>
    /\ Cached(EtagKey(d))[1].text = RegistryEtag

\* The cache holds a Versions entry for the key that decodes.
CacheDecodable(key) == Cached(key) # <<>> /\ Cached(key)[1].kind = "gob"

\* The first select of the task: the 'started' event.
TaskSendStarted(d) ==
    /\ ~panicked /\ tpc[d] = "sendStarted"
    /\ \E o \in SelectSend(currentPackage, ctxDone[d]) :
        /\ currentPackage' = AfterSend(currentPackage, o)
        /\ panicked' = (o = "panic")
        /\ tpc' = [tpc EXCEPT ![d] = CASE o = "panic" -> "sendPanic"
                                       [] o = "return" -> "release"
                                       [] OTHER -> "lookup"]
        /\ loc' = [loc EXCEPT ![d].err = IF o = "return" THEN "deadline"
                                         ELSE @]
    /\ UNCHANGED <<faults, flags, mainPc, nextDep, sem, wg, closerPc, ctxDone,
                   processed, memProcessed, deps, memCache, db,
                   selPc, selCur, selVersions, selFlags, selResult,
                   storeVars, clientVars, runVars, sideVars, sideVars>>

\* A lookup that reads the cached ETag whatever Restore returned.
TaskLookup_IgnoresRestore(d) ==
    /\ ~panicked /\ tpc[d] = "lookup"
    /\ \E r \in RestoreOutcomes(deps[d].Versions.vs, memCache, db,
                                 VersionsKey(d)) :
       \E g \in GetOutcomes(r.mem, db, EtagKey(d)) :
        /\ deps' = [deps EXCEPT ![d].Versions.vs = r.vs]
        /\ memCache' = g.mem
        /\ tpc' = [tpc EXCEPT ![d] = IF g.err THEN "get" ELSE "head"]
        /\ loc' = [loc EXCEPT
                     ![d].warm = CacheWarm(d),
                     ![d].restored = ~r.err,
                     ![d].cacheFailed = r.err \/ g.err,
                     ![d].etag = IF g.err THEN "" ELSE g.data.text]
        /\ faults' = faults
              + (IF r.err /\ CacheDecodable(VersionsKey(d)) THEN 1 ELSE 0)
              + (IF g.err /\ Has(r.mem, db, EtagKey(d)) THEN 1 ELSE 0)
    /\ faults' <= MaxFaults
    /\ UNCHANGED <<flags, mainPc, nextDep, sem, wg, closerPc, ctxDone,
                   processed, currentPackage, panicked, memProcessed, db,
                   selPc, selCur, selVersions, selFlags, selResult,
                   storeVars, clientVars, runVars, sideVars, sideVars>>

\* FetchNewVersion: Restore from the cache and, when that succeeded, read
\* the cached ETag.
TaskLookup(d) ==
    /\ ~panicked /\ tpc[d] = "lookup"
    /\ \E r \in RestoreOutcomes(deps[d].Versions.vs, memCache, db,
                                 VersionsKey(d)) :
       LET f1 == IF r.err /\ CacheDecodable(VersionsKey(d)) THEN 1 ELSE 0
       IN
        /\ deps' = [deps EXCEPT ![d].Versions.vs = r.vs]
        /\ IF r.err
           THEN /\ memCache' = r.mem
                /\ tpc' = [tpc EXCEPT ![d] = "get"]
                /\ loc' = [loc EXCEPT ![d].warm = CacheWarm(d),
                                      ![d].cacheFailed = TRUE]
                /\ faults' = faults + f1
           ELSE \E g \in GetOutcomes(r.mem, db, EtagKey(d)) :
                /\ memCache' = g.mem
                /\ tpc' = [tpc EXCEPT ![d] = IF g.err THEN "get" ELSE "head"]
                /\ loc' = [loc EXCEPT
                             ![d].warm = CacheWarm(d),
                             ![d].restored = TRUE,
                             ![d].cacheFailed = g.err,
                             ![d].etag = IF g.err THEN "" ELSE g.data.text]
                /\ faults' = faults + f1
                      + (IF g.err /\ Has(r.mem, db, EtagKey(d)) THEN 1 ELSE 0)
    /\ faults' <= MaxFaults
    /\ UNCHANGED <<flags, mainPc, nextDep, sem, wg, closerPc, ctxDone,
                   processed, currentPackage, panicked, memProcessed, db,
                   selPc, selCur, selVersions, selFlags, selResult,
                   storeVars, clientVars, runVars, sideVars, sideVars>>

\* A HEAD whose comparison of the two ETags is inverted.
TaskHead_Inverted(d) ==
    /\ ~panicked /\ tpc[d] = "head"
    /\ \E ok \in BOOLEAN :
        /\ faults' = faults + (IF ok THEN 0 ELSE 1)
        /\ faults' <= MaxFaults
        /\ loc' = [loc EXCEPT ![d].heads = @ + 1, ![d].headOk = ok]
        /\ tpc' = [tpc EXCEPT ![d] =
                     IF ok /\ loc[d].etag # RegistryEtag THEN "select"
                     ELSE "get"]
    /\ UNCHANGED <<flags, mainPc, nextDep, sem, wg, closerPc, ctxDone,
                   processed, currentPackage, panicked, memProcessed, deps,
                   memCache, db,
                   selPc, selCur, selVersions, selFlags, selResult,
                   storeVars, clientVars, runVars, sideVars, sideVars>>

\* A GET whose failure assigns a next version.
TaskGet_KeepsNext(d) ==
    /\ ~panicked /\ tpc[d] = "get"
    /\ \E ok \in BOOLEAN :
        /\ faults' = faults + (IF ok THEN 0 ELSE 1)
        /\ faults' <= MaxFaults
        /\ IF ok
           THEN /\ deps' = [deps EXCEPT
                              ![d].LatestVersion = <<RegistryLatest>>,
                              ![d].Versions = [isNil |-> FALSE,
                                               vs |-> RegistryVersions]]
                /\ loc' = [loc EXCEPT ![d].gets = @ + 1,
                                      ![d].etag = RegistryEtag]
                /\ tpc' = [tpc EXCEPT ![d] = "setEtag"]
           ELSE /\ deps' = [deps EXCEPT
                              ![d].LatestVersion = <<>>,
                              ![d].NextVersion = <<RegistryLatest>>,
                              ![d].Versions = [isNil |-> TRUE, vs |-> <<>>]]
                /\ loc' = [loc EXCEPT ![d].gets = @ + 1, ![d].etag = "",
                                      ![d].err = "get"]
                /\ tpc' = [tpc EXCEPT ![d] = "sendFinished"]
    /\ UNCHANGED <<flags, mainPc, nextDep, sem, wg, closerPc, ctxDone,
                   processed, currentPackage, panicked, memProcessed,
                   memCache, db,
                   selPc, selCur, selVersions, selFlags, selResult,
                   storeVars, clientVars, runVars, sideVars, sideVars>>

\* headEtagFromRegistry: one HEAD request; the GET is skipped when it
\* succeeds with the cached ETag.
TaskHead(d) ==
    /\ ~panicked /\ tpc[d] = "head"
    /\ \E ok \in BOOLEAN :
        /\ faults' = faults + (IF ok THEN 0 ELSE 1)
        /\ faults' <= MaxFaults
        /\ loc' = [loc EXCEPT ![d].heads = @ + 1, ![d].headOk = ok]
        /\ tpc' = [tpc EXCEPT ![d] =
                     IF ok /\ loc[d].etag = RegistryEtag THEN "select"
                     ELSE "get"]
    /\ UNCHANGED <<flags, mainPc, nextDep, sem, wg, closerPc, ctxDone,
                   processed, currentPackage, panicked, memProcessed, deps,
                   memCache, db,
                   selPc, selCur, selVersions, selFlags, selResult,
                   storeVars, clientVars, runVars, sideVars, sideVars>>

\* etag, d.LatestVersion, d.Versions, err = getVersionsFromRegistry(...):
\* one GET request; a failure assigns the zero values and returns.
TaskGet(d) ==
    /\ ~panicked /\ tpc[d] = "get"
    /\ \E ok \in BOOLEAN :
        /\ faults' = faults + (IF ok THEN 0 ELSE 1)
        /\ faults' <= MaxFaults
        /\ IF ok
           THEN /\ deps' = [deps EXCEPT
                              ![d].LatestVersion = <<RegistryLatest>>,
                              ![d].Versions = [isNil |-> FALSE,
                                               vs |-> RegistryVersions]]
                /\ loc' = [loc EXCEPT ![d].gets = @ + 1,
                                      ![d].etag = RegistryEtag]
                /\ tpc' = [tpc EXCEPT ![d] = "setEtag"]
           ELSE /\ deps' = [deps EXCEPT
                              ![d].LatestVersion = <<>>,
                              ![d].Versions = [isNil |-> TRUE, vs |-> <<>>]]
                /\ loc' = [loc EXCEPT ![d].gets = @ + 1, ![d].etag = "",
                                      ![d].err = "get"]
                /\ tpc' = [tpc EXCEPT ![d] = "sendFinished"]
    /\ UNCHANGED <<flags, mainPc, nextDep, sem, wg, closerPc, ctxDone,
                   processed, currentPackage, panicked, memProcessed,
                   memCache, db,
                   selPc, selCur, selVersions, selFlags, selResult,
                   storeVars, clientVars, runVars, sideVars, sideVars>>

\* cache.Set(d.PackageName+"-etag", etag); a failure returns.
TaskSetEtag(d) ==
    /\ ~panicked /\ tpc[d] = "setEtag"
    /\ \E o \in SetOutcomes(memCache, db, EtagKey(d), EtagBytes(loc[d].etag)) :
        /\ faults' = faults + (IF o.err THEN 1 ELSE 0)
        /\ faults' <= MaxFaults
        /\ memCache' = o.mem
        /\ db' = o.disk
        /\ loc' = [loc EXCEPT ![d].err = IF o.err THEN "cacheEtag" ELSE @,
                              ![d].cacheFailed = @ \/ o.err]
        /\ tpc' = [tpc EXCEPT ![d] = IF o.err THEN "sendFinished" ELSE "save"]
    /\ UNCHANGED <<flags, mainPc, nextDep, sem, wg, closerPc, ctxDone,
                   processed, currentPackage, panicked, memProcessed, deps,
                   selPc, selCur, selVersions, selFlags, selResult,
                   storeVars, clientVars, runVars, sideVars, sideVars>>

\* d.Versions.Save(d.PackageName, cache); a failure returns.
TaskSave(d) ==
    /\ ~panicked /\ tpc[d] = "save"
    /\ \E o \in SetOutcomes(memCache, db, VersionsKey(d),
                            SaveBytes(deps[d].Versions.vs)) :
        /\ faults' = faults + (IF o.err THEN 1 ELSE 0)
        /\ faults' <= MaxFaults
        /\ memCache' = o.mem
        /\ db' = o.disk
        /\ loc' = [loc EXCEPT ![d].err = IF o.err THEN "cacheSave" ELSE @,
                              ![d].cacheFailed = @ \/ o.err]
        /\ tpc' = [tpc EXCEPT ![d] = IF o.err THEN "sendFinished" ELSE "select"]
    /\ UNCHANGED <<flags, mainPc, nextDep, sem, wg, closerPc, ctxDone,
                   processed, currentPackage, panicked, memProcessed, deps,
                   selPc, selCur, selVersions, selFlags, selResult,
                   storeVars, clientVars, runVars, sideVars, sideVars>>

\* NewVersionManager, d.NextVersion = vm.GetUpdatedVersion(flags), and the
\* closing select on ctx.Done(), which only picks the error returned.
TaskSelect(d) ==
    /\ ~panicked /\ tpc[d] = "select"
    /\ LET vm == NewVersionManager(deps[d].CurrentVersion,
                                   deps[d].Versions.vs, flags)
       IN  deps' = [deps EXCEPT
                      ![d].Versions.vs = vm.versions,
                      ![d].NextVersion = GetUpdatedVersion(vm, flags)]
    /\ loc' = [loc EXCEPT ![d].selected = TRUE,
                          ![d].err = IF ctxDone[d] THEN "ctx" ELSE "nil"]
    /\ tpc' = [tpc EXCEPT ![d] = "sendFinished"]
    /\ UNCHANGED <<faults, flags, mainPc, nextDep, sem, wg, closerPc, ctxDone,
                   processed, currentPackage, panicked, memProcessed,
                   memCache, db,
                   selPc, selCur, selVersions, selFlags, selResult,
                   storeVars, clientVars, runVars, sideVars, sideVars>>

\* The second select of the task: the 'finished' event.
TaskSendFinished(d) ==
    /\ ~panicked /\ tpc[d] = "sendFinished"
    /\ \E o \in SelectSend(processed, ctxDone[d]) :
        /\ processed' = AfterSend(processed, o)
        /\ panicked' = (o = "panic")
        /\ tpc' = [tpc EXCEPT ![d] = IF o = "panic" THEN "sendPanic"
                                     ELSE "release"]
        /\ loc' = [loc EXCEPT ![d].finished = o]
    /\ UNCHANGED <<faults, flags, mainPc, nextDep, sem, wg, closerPc, ctxDone,
                   currentPackage, memProcessed, deps, memCache, db,
                   selPc, selCur, selVersions, selFlags, selResult,
                   storeVars, clientVars, runVars, sideVars, sideVars>>

\* The deferred function: <-sem
TaskRelease(d) ==
    /\ ~panicked /\ tpc[d] = "release"
    /\ sem' = sem - 1
    /\ tpc' = [tpc EXCEPT ![d] = "wgDone"]
    /\ UNCHANGED <<faults, flags, mainPc, nextDep, wg, closerPc, ctxDone, processed,
                   currentPackage, panicked, memProcessed, deps, memCache,
                   db, loc, selPc, selCur, selVersions, selFlags, selResult,
                   storeVars, clientVars, runVars, sideVars, sideVars>>

\* The deferred function: wg.Done(), which wakes the waiter when the
\* counter reaches zero.
TaskWgDone(d) ==
    /\ ~panicked /\ tpc[d] = "wgDone"
    /\ wg' = wg - 1
    /\ closerPc' = IF wg = 1 /\ closerPc = "blocked" THEN "woken" ELSE closerPc
    /\ tpc' = [tpc EXCEPT ![d] = "memOpt"]
    /\ UNCHANGED <<faults, flags, mainPc, nextDep, sem, ctxDone, processed,
                   currentPackage, panicked, memProcessed, deps, memCache,
                   db, loc, selPc, selCur, selVersions, selFlags, selResult,
                   storeVars, clientVars, runVars, sideVars, sideVars>>

\* The deferred function: memOptimizer.ProcessedPackage()
TaskMemOpt(d) ==
    /\ ~panicked /\ tpc[d] = "memOpt"
    /\ memProcessed' = memProcessed + 1
    /\ tpc' = [tpc EXCEPT ![d] = "exited"]
    /\ UNCHANGED <<faults, flags, mainPc, nextDep, sem, wg, closerPc, ctxDone,
                   processed, currentPackage, panicked, deps, memCache,
                   db, loc, selPc, selCur, selVersions, selFlags, selResult,
                   storeVars, clientVars, runVars, sideVars, sideVars>>

\* The deadline of a task's context passes while the task is running.
CtxDeadline(d) ==
    /\ ~panicked /\ tpc[d] \in BodyPcs /\ ~ctxDone[d]
    /\ faults < MaxFaults
    /\ faults' = faults + 1
    /\ ctxDone' = [ctxDone EXCEPT ![d] = TRUE]
    /\ UNCHANGED <<flags, mainPc, nextDep, sem, wg, closerPc, tpc, processed,
                   currentPackage, panicked, memProcessed, deps, memCache,
                   db, loc, selPc, selCur, selVersions, selFlags, selResult,
                   storeVars, clientVars, runVars, sideVars, sideVars>>

\* ---- the consumer of the two channels (the progress bar's feeder) -------

ReceiveProcessed ==
    /\ ~panicked /\ processed.len > 0
    /\ processed' = [processed EXCEPT !.len = @ - 1]
    /\ UNCHANGED <<faults, flags, mainPc, nextDep, sem, wg, closerPc, tpc, ctxDone,
                   currentPackage, panicked, memProcessed, deps, memCache,
                   db, loc, selPc, selCur, selVersions, selFlags, selResult,
                   storeVars, clientVars, runVars, sideVars, sideVars>>

ReceiveCurrentPackage ==
    /\ ~panicked /\ currentPackage.len > 0
    /\ currentPackage' = [currentPackage EXCEPT !.len = @ - 1]
    /\ UNCHANGED <<faults, flags, mainPc, nextDep, sem, wg, closerPc, tpc, ctxDone,
                   processed, panicked, memProcessed, deps, memCache,
                   db, loc, selPc, selCur, selVersions, selFlags, selResult,
                   storeVars, clientVars, runVars, sideVars, sideVars>>

Next ==
    \/ MainAcquire
    \/ MainLaunch
    \/ MainWait
    \/ CloserWait
    \/ CloserResume
    \/ CloserCloseProcessed
    \/ CloserCloseCurrent
    \/ \E d \in Deps : TaskSendStarted(d)
    \/ \E d \in Deps : TaskLookup(d)
    \/ \E d \in Deps : TaskHead(d)
    \/ \E d \in Deps : TaskGet(d)
    \/ \E d \in Deps : TaskSetEtag(d)
    \/ \E d \in Deps : TaskSave(d)
    \/ \E d \in Deps : TaskSelect(d)
    \/ \E d \in Deps : TaskSendFinished(d)
    \/ \E d \in Deps : TaskRelease(d)
    \/ \E d \in Deps : TaskWgDone(d)
    \/ \E d \in Deps : TaskMemOpt(d)
    \/ \E d \in Deps : CtxDeadline(d)
    \/ ReceiveProcessed
    \/ ReceiveCurrentPackage

Spec == Init /\ [][Next]_vars

\* ---- the selector on its own ---------------------------------------------

EngineIdle ==
    /\ flags \in { f \in EngineFlags : f.CPUs = 1 }
    /\ mainPc = "off" /\ nextDep = 1 /\ sem = 0 /\ wg = 0
    /\ closerPc = "off"
    /\ tpc = [d \in Deps |-> "idle"]
    /\ ctxDone = [d \in Deps |-> FALSE]
    /\ processed = OpenChannel /\ currentPackage = OpenChannel
    /\ panicked = FALSE /\ memProcessed = 0
    /\ deps = [d \in Deps |-> NewDependency(d)]
    /\ memCache = [k \in CacheKeys |-> <<>>]
    /\ db = [k \in CacheKeys |-> <<>>]
    /\ loc = [d \in Deps |-> NewLocals]
    /\ faults = 0

SelectorInit == SelInit /\ EngineIdle /\ StoreIdle /\ ClientIdle /\ RunIdle
                /\ SideIdle

SelectorNext ==
    \/ SelSelect /\ UNCHANGED <<engineVars, storeVars, clientVars, runVars, sideVars, sideVars>>
    \/ SelRerun /\ UNCHANGED <<engineVars, storeVars, clientVars, runVars, sideVars, sideVars>>

SelectorSpec == SelectorInit /\ [][SelectorNext]_vars

----------------------------------------------------------------------------
(* The cache on its own: a Versions value saved and restored, and          *)
(* goroutines that call Set and Get on one key at the same time.           *)

\* The engine's variables other than the two tiers of the cache.
engineRest == <<flags, mainPc, nextDep, sem, wg, closerPc, tpc, ctxDone,
                processed, currentPackage, panicked, memProcessed,
                deps, loc, faults>>

\* The longest Versions value that is saved.
MaxStored == 2

\* The entries of a Versions value: a version string of the registry
\* document (one of them carries build metadata, one does not parse) with
\* its unpacked size and its deprecation mark.
StoreEntries ==
    { [v EXCEPT !.weight = w, !.deprecated = dp] :
        v \in {v100, [v100 EXCEPT !.build = <<idA>>], v101, InvalidVer},
        w \in {0, 1}, dp \in BOOLEAN }

\* The Versions values SetVersions can have built: keyed by the version
\* string, sorted in descending precedence.
StoreCollections ==
    { vs \in UNION { [1..n -> StoreEntries] : n \in 1..MaxStored } :
        /\ IsDescending(vs)
        /\ \A i, j \in 1..Len(vs) :
              i # j => VersionStr(vs[i]) # VersionStr(vs[j]) }

\* The key of the round trip and the key the concurrent callers write.
StoreKey == VersionsKey(1)
SetKey == EtagKey(1)

\* The payloads handed to Set: two short values, one that is compressed
\* on disk, and two short ones whose first byte has the value of the
\* marker, one of them going on as the gzip stream of a text.
SetPayloads ==
    {EtagBytes("e0"), EtagBytes("e1"), SaveBytes(RegistryVersions),
     MarkedBytes, Gz(EtagBytes("e0"))}

\* Either a Versions value is about to be saved, or NCallers goroutines are
\* about to call Set on SetKey and one to call Get on it.
CacheInit ==
    /\ EngineIdle
    /\ SelIdle
    /\ ClientIdle
    /\ RunIdle /\ SideIdle
    /\ \/ /\ stPc = "ready"
          /\ stOrig \in StoreCollections
          /\ stRestored = <<>>
          /\ setPc = [c \in Callers |-> "off"]
          /\ setVal = [c \in Callers |-> JunkBytes]
          /\ getPc = "off" /\ getVal = <<>>
       \/ /\ stPc = "off" /\ stOrig = <<>> /\ stRestored = <<>>
          /\ setPc = [c \in Callers |-> "call"]
          /\ setVal \in [Callers -> SetPayloads]
          /\ getPc = "call" /\ getVal = <<>>

\* Versions.Save: the collection is encoded and handed to Cache.Set, whose
\* error is returned.
StoreSave ==
    /\ stPc = "ready"
    /\ \E o \in SetOutcomes(memCache, db, StoreKey, SaveBytes(stOrig)) :
          /\ memCache' = o.mem
          /\ db' = o.disk
          /\ stPc' = IF o.err THEN "saveFailed" ELSE "saved"
    /\ UNCHANGED <<engineRest, selVars, clientVars, runVars, sideVars, getPc, getVal, stOrig, stRestored, setPc, setVal>>

\* The process ends and a later run opens the cache: NewCache starts with
\* an empty in-memory map over the same store.
StoreRestart ==
    /\ stPc \in {"saved", "saveFailed"}
    /\ memCache' = [k \in CacheKeys |-> <<>>]
    /\ stPc' = "restarted"
    /\ UNCHANGED <<engineRest, selVars, clientVars, runVars, sideVars, getPc, getVal, db, stOrig, stRestored, setPc,
                   setVal>>

\* Versions.Restore into a new collection.
StoreRestore ==
    /\ stPc \in {"saved", "saveFailed", "restarted"}
    /\ \E o \in RestoreOutcomes(<<>>, memCache, db, StoreKey) :
          /\ memCache' = o.mem
          /\ stPc' = IF o.err THEN "restoreFailed" ELSE "restored"
          /\ stRestored' = IF o.err THEN <<>> ELSE o.vs
    /\ UNCHANGED <<engineRest, selVars, clientVars, runVars, sideVars, getPc, getVal, db, stOrig, setPc, setVal>>

\* Cache.Set, first half: the value is stored in the in-memory map.
SetStore(c) ==
    /\ setPc[c] = "call"
    /\ memCache' = [memCache EXCEPT ![SetKey] = <<setVal[c]>>]
    /\ setPc' = [setPc EXCEPT ![c] = "put"]
    /\ UNCHANGED <<engineRest, selVars, clientVars, runVars, sideVars, getPc, getVal, db, stPc, stOrig, stRestored,
                   setVal>>

\* Cache.Set, second half: db.Put of the (possibly compressed) value; its
\* error is what Set returns.
SetPut(c) ==
    /\ setPc[c] = "put"
    /\ \E ok \in BOOLEAN :
          /\ db' = IF ok
                   THEN [db EXCEPT
                           ![SetKey] = <<compressIfBeneficial(setVal[c])>>]
                   ELSE db
          /\ setPc' = [setPc EXCEPT ![c] = IF ok THEN "ok" ELSE "failed"]
    /\ UNCHANGED <<engineRest, selVars, clientVars, runVars, sideVars, getPc, getVal, memCache, stPc, stOrig, stRestored,
                   setVal>>

\* Cache.Get, first step: memCache.Load; a key found in memory is served
\* from it.
GetLoad ==
    /\ getPc = "call"
    /\ IF memCache[SetKey] # <<>>
       THEN /\ getPc' = "done"
            /\ getVal' = [fromDisk |-> FALSE, read |-> memCache[SetKey][1],
                          data |-> memCache[SetKey][1]]
       ELSE getPc' = "read" /\ UNCHANGED getVal
    /\ UNCHANGED <<engineVars, selVars, clientVars, runVars, sideVars,
                   stPc, stOrig, stRestored, setPc, setVal>>

\* Cache.Get, second step: db.Has and db.Get, which may fail; bytes that
\* start with the marker byte are handed to tryDecompress, and kept as they
\* are when it fails.
GetRead ==
    /\ getPc = "read"
    /\ IF db[SetKey] = <<>>
       THEN getPc' = "notFound" /\ UNCHANGED getVal
       ELSE \/ getPc' = "failed" /\ UNCHANGED getVal
            \/ /\ getPc' = "store"
               /\ getVal' = [fromDisk |-> TRUE, read |-> db[SetKey][1],
                             data |-> tryDecompress(db[SetKey][1])]
    /\ UNCHANGED <<engineVars, selVars, clientVars, runVars, sideVars,
                   stPc, stOrig, stRestored, setPc, setVal>>

\* Cache.Get, last step: memCache.Store of what was read, which is then
\* returned.
GetStore ==
    /\ getPc = "store"
    /\ memCache' = [memCache EXCEPT ![SetKey] = <<getVal.data>>]
    /\ getPc' = "done"
    /\ UNCHANGED <<engineRest, selVars, clientVars, runVars, sideVars, db,
                   stPc, stOrig, stRestored, setPc, setVal, getVal>>

\* Cache.AutoCleanup when thirty minutes have passed since the last one:
\* the in-memory map is replaced by an empty one.
AutoCleanup ==
    /\ getPc # "off"
    /\ memCache[SetKey] # <<>>
    /\ memCache' = [k \in CacheKeys |-> <<>>]
    /\ UNCHANGED <<engineRest, selVars, clientVars, runVars, sideVars, db,
                   stPc, stOrig, stRestored, setPc, setVal, getPc, getVal>>

CacheNext ==
    \/ StoreSave
    \/ StoreRestart
    \/ StoreRestore
    \/ \E c \in Callers : SetStore(c)
    \/ \E c \in Callers : SetPut(c)
    \/ GetLoad
    \/ GetRead
    \/ GetStore
    \/ AutoCleanup

CacheSpec == CacheInit /\ [][CacheNext]_vars

----------------------------------------------------------------------------
(* The registry client on its own: one headEtagFromRegistry or             *)
(* getVersionsFromRegistry call, from the .npmrc file to the returned      *)
(* error.  A string is written as the sequence of its pieces.              *)

\* strings.HasPrefix, strings.HasSuffix and strings.TrimSuffix
HasPrefix(s, p) == Len(p) <= Len(s) /\ SubSeq(s, 1, Len(p)) = p
HasSuffix(s, p) ==
    Len(p) <= Len(s) /\ SubSeq(s, Len(s) - Len(p) + 1, Len(s)) = p
TrimSuffix(s, p) ==
    IF HasSuffix(s, p) THEN SubSeq(s, 1, Len(s) - Len(p)) ELSE s

\* The registry given on the command line.
DefaultRegistry == "https://registry.npmjs.org"

\* The packages a call may ask for.
PackageNames == {<<"lodash">>, <<"@acme", "/widget">>, <<"@beta", "/tool">>}

\* The key=value lines a .npmrc file is made of: a registry for a scope,
\* a token for a host, the default registry.
NpmrcLines ==
    { [key |-> <<"@acme", ":registry">>, value |-> "https://reg.acme"],
      [key |-> <<"@beta", ":registry">>, value |-> "https://reg.beta"],
      [key |-> <<"//reg.acme/", ":_authToken">>, value |-> "TOKEN"],
      [key |-> <<"registry">>, value |-> "https://mirror.example"] }

\* The longest .npmrc file.
MaxLines == 2

\* The .npmrc files: one that cannot be read, and every file of at most
\* MaxLines lines.
NpmrcFiles ==
    { [readable |-> FALSE, lines |-> <<>>] } \cup
    { [readable |-> TRUE, lines |-> ls] :
        ls \in UNION { [1..n -> NpmrcLines] : n \in 0..MaxLines } }

\* parseNpmrc, the loop over the lines: a key ending in ":registry" sets
\* Registry and Scope, a key ending in ":_authToken" sets AuthToken; a
\* later line overwrites an earlier one.
RECURSIVE parseLines(_, _)
parseLines(config, lines) ==
    IF lines = <<>> THEN config
    ELSE LET l == Head(lines)
             c == CASE HasSuffix(l.key, <<":registry">>) ->
                         [config EXCEPT
                            !.Registry = l.value,
                            !.Scope = TrimSuffix(l.key, <<":registry">>)]
                    [] HasSuffix(l.key, <<":_authToken">>) ->
                         [config EXCEPT !.AuthToken = l.value]
                    [] OTHER -> config
         IN  parseLines(c, Tail(lines))

\* parseNpmrc of a readable file.
parseNpmrc(file) ==
    parseLines([Registry |-> "", AuthToken |-> "", Scope |-> <<>>],
               file.lines)

\* makeRegistryRequest, the request it builds.
makeRegistryRequest(method, registry, packageName, npmConfig) ==
    LET isPrivate == HasPrefix(packageName, npmConfig.Scope)
    IN  [method |-> method,
         registryURL |-> IF isPrivate /\ npmConfig.Registry # ""
                         THEN npmConfig.Registry ELSE registry,
         packageName |-> packageName,
         Authorization |-> IF isPrivate /\ npmConfig.AuthToken # ""
                           THEN <<"Bearer", npmConfig.AuthToken>>
                           ELSE <<>>]

\* What the wire gives back: a transport failure or a response status.
Answers ==
    { [failed |-> TRUE, status |-> 0] } \cup
    { [failed |-> FALSE, status |-> st] : st \in {200, 404, 500} }

\* A client that sends a request again after a transport failure or a 5xx
\* status, once.
SendsAgain_Retryable(answer, attempts) ==
    (answer.failed \/ answer.status >= 500) /\ attempts <= 1

\* Whether makeRegistryRequest sends the request again after an answer:
\* fasthttp.Do is called once and its error is returned.
SendsAgain(answer, attempts) == FALSE

\* The error headEtagFromRegistry and getVersionsFromRegistry return for an
\* answer.
ResultOf(answer) ==
    IF answer.failed THEN "request failed"
    ELSE IF answer.status # 200 THEN "npm registry error"
    ELSE ""

ClientInit ==
    /\ EngineIdle
    /\ SelIdle
    /\ StoreIdle
    /\ RunIdle /\ SideIdle
    /\ cliPc = "parse"
    /\ cliCall \in [method : {"HEAD", "GET"}, packageName : PackageNames,
                    file : NpmrcFiles]
    /\ cliConfig = <<>>
    /\ cliSent = <<>>
    /\ cliResult = <<>>

\* npmConfig, err := parseNpmrc(): an unreadable file ends the call.
ClientParse ==
    /\ cliPc = "parse"
    /\ IF cliCall.file.readable
       THEN /\ cliConfig' = <<parseNpmrc(cliCall.file)>>
            /\ cliPc' = "request"
            /\ UNCHANGED cliResult
       ELSE /\ cliResult' = <<"error parsing .npmrc">>
            /\ cliPc' = "returned"
            /\ UNCHANGED cliConfig
    /\ UNCHANGED <<engineVars, selVars, storeVars, runVars, sideVars, cliCall, cliSent>>

\* makeRegistryRequest and the check of the status: the request is built
\* and sent, and the answer decides what the call returns.
ClientDo ==
    /\ cliPc = "request"
    /\ \E answer \in Answers :
         /\ cliSent' = Append(cliSent,
                [request |-> makeRegistryRequest(cliCall.method,
                                 DefaultRegistry, cliCall.packageName,
                                 cliConfig[1]),
                 answer |-> answer])
         /\ IF SendsAgain(answer, Len(cliSent'))
            THEN UNCHANGED <<cliPc, cliResult>>
            ELSE /\ cliPc' = "returned"
                 /\ cliResult' = <<ResultOf(answer)>>
    /\ UNCHANGED <<engineVars, selVars, storeVars, runVars, sideVars, cliCall, cliConfig>>

ClientNext ==
    \/ ClientParse
    \/ ClientDo

ClientSpec == ClientInit /\ [][ClientNext]_vars

----------------------------------------------------------------------------
(* One run of a command from its entry point: main and Exec (cmd), the     *)
(* manifest loader and rewriter (packagejson), the interactive selector    *)
(* (ui) and the unused-dependency check (checkdeps).                       *)

\* The most key presses the selector is given in one run.
MaxKeys == 4

\* What the registry offers for every package of the manifest, as
\* Versions.Values() returns it: 2.0.0, 1.0.1 and 1.0.0.
RunCandidates == <<Ver(d2, d0, d0, <<>>), v101, v100>>

\* The selection flags of the run: the defaults of the root command.
RunSelFlags == [NoFlags EXCEPT !.KeepRangeOperator = TRUE]

\* A manifest entry that is not a version: latest, * or the empty string.
Literal(s) == [operator |-> "", version |-> <<s>>]

\* A member of a JSON object, and the two kinds of top-level member the
\* manifest has: a dependency bucket and anything else.
Member(k, e) == [key |-> k, val |-> e]
Bucket(k, ms) == [key |-> k, isObject |-> TRUE, text |-> "", members |-> ms]
Scalar(k, t) == [key |-> k, isObject |-> FALSE, text |-> t, members |-> <<>>]

\* The package.json files a run can meet: the members in file order.
Manifests ==
    LET v200 == RunCandidates[1]
        ProdBuckets ==
            { <<Member("a", StringWithPrefix(SetPrefix(v100, "^"))),
                Member("b", StringWithPrefix(v101))>>,
              <<Member("a", StringWithPrefix(v200))>> }
            \cup { <<Member("b", Literal(s)),
                     Member("a", StringWithPrefix(SetPrefix(v101, "^")))>> :
                   s \in {"latest", "*", ""} }
        DevBuckets ==
            { <<Member("c", StringWithPrefix(SetPrefix(v100, "~")))>>,
              <<Member("c", StringWithPrefix(v200))>> }
    IN  { <<Scalar("name", "app"), Bucket("dependencies", p),
            Bucket("devDependencies", d), Scalar("scripts", "test")>> :
          p \in ProdBuckets, d \in DevBuckets }
        \cup
        { <<Bucket("devDependencies", d),
            Bucket("peerDependencies",
                   <<Member("a", StringWithPrefix(SetPrefix(v100, ">=")))>>),
            Bucket("optionalDependencies",
                   <<Member("b", StringWithPrefix(SetPrefix(v100, "^")))>>),
            Scalar("name", "app"), Bucket("dependencies", p)>> :
          p \in ProdBuckets, d \in DevBuckets }
        \cup { <<Scalar("name", "app")>> }

\* The members of a bucket of the document, empty when it has none.
BucketOf(doc, section) ==
    IF \E i \in 1..Len(doc) : doc[i].key = section /\ doc[i].isObject
    THEN (CHOOSE m \in { doc[i] : i \in 1..Len(doc) } :
              m.key = section /\ m.isObject).members
    ELSE <<>>

\* semver.NewSemver(currentVersion).IsValid()
IsValidEntry(e) == Len(e.version) = 5

\* NewDependency(packageName, currentVersion, env, workspace)
NewDependencyOf(m, env) ==
    [PackageName |-> m.key, Env |-> env,
     CurrentVersion |-> ParseEntry(m.val),
     Versions |-> <<>>, NextVersion |-> <<>>, HaveToUpdate |-> FALSE]

\* The loop of ProcessDependencies over one bucket: the entries
\* NewDependency rejects are left out.
DepsOfBucket(doc, section, env) ==
    LET ok == SelectSeq(BucketOf(doc, section),
                        LAMBDA m : IsValidEntry(m.val))
    IN  [i \in 1..Len(ok) |-> NewDependencyOf(ok[i], env)]

\* allDeps of ProcessDependencies.
LoadDeps(doc, fl) ==
    DepsOfBucket(doc, "dependencies", "prod")
    \o (IF fl.Production THEN <<>>
        ELSE DepsOfBucket(doc, "devDependencies", "dev")
             \o (IF fl.PeerDependencies
                 THEN DepsOfBucket(doc, "peerDependencies", "peer")
                 ELSE <<>>))

\* FetchNewVersion on a dependency whose requests succeed: the candidates
\* of the registry and the version the selector returns.
Fetched(dep) ==
    LET vm == NewVersionManager(dep.CurrentVersion, RunCandidates,
                                RunSelFlags)
    IN  [dep EXCEPT !.Versions = vm.versions,
                    !.NextVersion = GetUpdatedVersion(vm, RunSelFlags)]

\* updater.NeedToUpdate
NeedToUpdate(ds) == \E i \in 1..Len(ds) : ds[i].HaveToUpdate

\* A Set that takes the key out and appends it again.
OrderedSet_Reappend(members, k, e) ==
    IF \E i \in 1..Len(members) : members[i].key = k
    THEN SelectSeq(members, LAMBDA m : m.key # k) \o <<Member(k, e)>>
    ELSE members

\* OrderedMap.Set on the copy of a nested map that the type assertion
\* yields: a key that is there keeps its place and takes the new value; a
\* key that is not there is appended to the copy's keys only and does not
\* show in the document.
OrderedSet(members, k, e) ==
    [i \in 1..Len(members) |->
        IF members[i].key = k THEN Member(k, e) ELSE members[i]]

\* The loop of updatePackageJSON over the dependencies of one section.
RECURSIVE SetAll(_, _, _, _)
SetAll(members, ds, env, i) ==
    IF i > Len(ds) THEN members
    ELSE SetAll(IF ds[i].Env = env /\ ds[i].HaveToUpdate
                THEN OrderedSet(members, ds[i].PackageName,
                                StringWithPrefix(ds[i].NextVersion[1]))
                ELSE members,
                ds, env, i + 1)

depSections ==
    [dependencies |-> "prod", devDependencies |-> "dev",
     peerDependencies |-> "peer"]

\* updatePackageJSON: the document as it is written back.
updatePackageJSON(doc, ds) ==
    [i \in 1..Len(doc) |->
        IF doc[i].isObject /\ doc[i].key \in DOMAIN depSections
        THEN [doc[i] EXCEPT
                !.members = SetAll(@, ds, depSections[doc[i].key], 1)]
        ELSE doc[i]]

\* The keys of a map of the manifest.
KeySet(members) == { members[i].key : i \in 1..Len(members) }

\* The loops of analyzePackageDependencies over the declared
\* dependencies.
RECURSIVE UnusedIn(_, _, _)
UnusedIn(declared, used, exempt) ==
    IF declared = <<>> THEN <<>>
    ELSE IF Head(declared).key \notin used
         THEN IF Head(declared).key \notin exempt
              THEN <<Head(declared).key>>
                   \o UnusedIn(Tail(declared), used, exempt)
              ELSE UnusedIn(Tail(declared), used, exempt)
         ELSE UnusedIn(Tail(declared), used, exempt)

\* An analysis that does not look at the peer dependencies.
analyzePackageDependencies_NoPeer(doc, used) ==
    [UnusedDependencies |->
        UnusedIn(BucketOf(doc, "dependencies"), used,
                 KeySet(BucketOf(doc, "optionalDependencies"))),
     UnusedDevDependencies |->
        UnusedIn(BucketOf(doc, "devDependencies"), used, {})]

analyzePackageDependencies(doc, used) ==
    [UnusedDependencies |->
        UnusedIn(BucketOf(doc, "dependencies"), used,
                 KeySet(BucketOf(doc, "optionalDependencies"))
                   \cup KeySet(BucketOf(doc, "peerDependencies"))),
     UnusedDevDependencies |->
        UnusedIn(BucketOf(doc, "devDependencies"), used, {})]

\* UpdatePackageJSON on changes that have no next version: the keys are
\* taken out of their buckets.
RemoveKeys(doc, prod, dev) ==
    [i \in 1..Len(doc) |->
        IF doc[i].isObject /\ doc[i].key = "dependencies"
        THEN [doc[i] EXCEPT !.members =
                 SelectSeq(@, LAMBDA m : m.key \notin prod)]
        ELSE IF doc[i].isObject /\ doc[i].key = "devDependencies"
        THEN [doc[i] EXCEPT !.members =
                 SelectSeq(@, LAMBDA m : m.key \notin dev)]
        ELSE doc[i]]

\* createInitialModel: the model of the selector over the rows it is
\* given, and the number of key presses it has taken.
createInitialModel(rows) ==
    [state |-> "depsView", rows |-> rows, cursor |-> 1, vcursor |-> 1,
     selected |-> {}, quitting |-> FALSE, done |-> FALSE, keys |-> 0]

\* The process has started: the root command (an update) or the
\* checkdeps command, with its flags, in a directory, and with at most
\* one failure of its environment ahead; `used` are the packages the
\* source files import.
RunInit ==
    /\ EngineIdle /\ SelIdle /\ StoreIdle /\ ClientIdle /\ SideIdle
    /\ runPc = "main"
    /\ runEnv \in [cmd : {"update", "checkdeps"},
                   fault : {"none", "missing", "malformed", "badFlag",
                            "invalidValue", "writeFails", "installFails"},
                   used : SUBSET {"a", "b", "c"},
                   manifest : Manifests]
    /\ runFlags \in [NoInteractive : BOOLEAN, NoInstall : BOOLEAN,
                     DryRun : BOOLEAN, PeerDependencies : BOOLEAN,
                     Production : BOOLEAN, Fix : BOOLEAN]
    /\ runEnv.cmd = "update" =>
          /\ runEnv.used = {} /\ ~runFlags.Fix
          /\ runFlags.Production => runFlags.NoInteractive
    /\ runEnv.cmd = "checkdeps" =>
          /\ runEnv.fault \in {"none", "missing", "badFlag"}
          /\ ~runFlags.NoInteractive /\ ~runFlags.PeerDependencies
          /\ ~runFlags.Production
    /\ pkgFile = runEnv.manifest
    /\ allDeps = <<>>
    /\ ui = createInitialModel(<<>>)
    /\ writes = 0 /\ installs = 0 /\ exitStatus = 0
    /\ results = [UnusedDependencies |-> <<>>,
                  UnusedDevDependencies |-> <<>>]

\* main: cmd.Exec() returns the error of rootCmd.Execute(), and main exits
\* with status 1 on it.  Execute fails on a flag it cannot parse; a value
\* ValidateFlags would reject is not looked at.
RunMain ==
    /\ runPc = "main"
    /\ IF runEnv.fault = "badFlag"
       THEN runPc' = "exited" /\ exitStatus' = 1
       ELSE /\ runPc' = IF runEnv.cmd = "update" THEN "load" ELSE "check"
            /\ UNCHANGED exitStatus
    /\ UNCHANGED <<engineVars, selVars, storeVars, clientVars, sideVars,
                   runFlags,
                   runEnv, pkgFile, allDeps, ui, writes, installs, results>>

\* The Run function of the root command up to the resolution:
\* LoadPackageJSON and the NewDependency loops of ProcessDependencies.  An
\* error is printed and Run returns.
RunLoad ==
    /\ runPc = "load"
    /\ IF runEnv.fault \in {"missing", "malformed"}
       THEN runPc' = "exited" /\ UNCHANGED allDeps
       ELSE /\ allDeps' = LoadDeps(pkgFile, runFlags)
            /\ runPc' = IF allDeps' = <<>> THEN "exited" ELSE "fetch"
    /\ UNCHANGED <<engineVars, selVars, storeVars, clientVars, sideVars,
                   runFlags,
                   runEnv, pkgFile, ui, writes, installs, exitStatus,
                   results>>

\* FilterWithNewVersion: the positions of the dependencies that have a
\* next version.
RECURSIVE FilterWithNewVersion(_, _)
FilterWithNewVersion(ds, i) ==
    IF i > Len(ds) THEN <<>>
    ELSE (IF ds[i].NextVersion # <<>> THEN <<i>> ELSE <<>>)
         \o FilterWithNewVersion(ds, i + 1)

\* The resolution, and what ProcessDependencies does with its outcome:
\* return when nothing is new, mark every dependency that has a next
\* version in a non-interactive run, start the selector otherwise.
RunFetch ==
    /\ runPc = "fetch"
    /\ LET fetched == [i \in 1..Len(allDeps) |-> Fetched(allDeps[i])]
           someNewVersion ==
               \E i \in 1..Len(fetched) : fetched[i].NextVersion # <<>>
       IN  IF ~someNewVersion
           THEN /\ allDeps' = fetched /\ runPc' = "exited"
                /\ UNCHANGED ui
           ELSE IF runFlags.NoInteractive
           THEN /\ allDeps' = [i \in 1..Len(fetched) |->
                                 [fetched[i] EXCEPT !.HaveToUpdate =
                                     fetched[i].NextVersion # <<>>]]
                /\ runPc' = "commit"
                /\ UNCHANGED ui
           ELSE /\ allDeps' = fetched
                /\ ui' = createInitialModel(FilterWithNewVersion(fetched, 1))
                /\ runPc' = "ui"
    /\ UNCHANGED <<engineVars, selVars, storeVars, clientVars, sideVars,
                   runFlags,
                   runEnv, pkgFile, writes, installs, exitStatus, results>>

UiKeys == {"down", " ", "enter", "right", "left", "ctrl+a", "ctrl+u", "q"}

\* findCurrentVersionIndex: the row of the next version, the first row
\* when no candidate compares equal to it.
findCurrentVersionIndex(dep) ==
    IF \E j \in 1..Len(dep.Versions) :
           Compare(dep.NextVersion[1], dep.Versions[j]) = 0
    THEN CHOOSE j \in 1..Len(dep.Versions) :
           /\ Compare(dep.NextVersion[1], dep.Versions[j]) = 0
           /\ \A l \in 1..(j - 1) :
                 Compare(dep.NextVersion[1], dep.Versions[l]) # 0
    ELSE 1

\* A SelectDependencies that marks the selected rows before it looks at
\* the cancellation.
SelectDependencies_MarksFirst(m, ds) ==
    [i \in 1..Len(ds) |->
        IF \E r \in m.selected : m.rows[r] = i
        THEN [ds[i] EXCEPT !.HaveToUpdate = TRUE] ELSE ds[i]]

\* SelectDependencies once the program has ended: nothing is marked when
\* the user has cancelled, the selected rows are marked otherwise.
SelectDependencies(m, ds) ==
    IF m.quitting THEN ds
    ELSE [i \in 1..Len(ds) |->
            IF \E r \in m.selected : m.rows[r] = i
            THEN [ds[i] EXCEPT !.HaveToUpdate = TRUE] ELSE ds[i]]

\* model.Update on one key press, and the end of SelectDependencies when
\* the key ends the program.
RunKey(k) ==
    /\ runPc = "ui" /\ ui.keys < MaxKeys
    /\ LET m == [ui EXCEPT !.keys = @ + 1]
           dep == allDeps[m.rows[m.cursor]]
       IN  IF k = "q"
           THEN /\ ui' = [m EXCEPT !.quitting = TRUE]
                /\ allDeps' = SelectDependencies(ui', allDeps)
                /\ runPc' = "commit"
           ELSE IF m.state = "versionsView"
           THEN /\ runPc' = "ui"
                /\ CASE k = "left" ->
                          /\ ui' = [m EXCEPT !.state = "depsView"]
                          /\ UNCHANGED allDeps
                     [] k \in {" ", "enter"} ->
                          /\ allDeps' = [allDeps EXCEPT
                                ![m.rows[m.cursor]].NextVersion =
                                    <<dep.Versions[m.vcursor]>>]
                          /\ ui' = [m EXCEPT !.state = "depsView",
                                             !.selected = @ \cup {m.cursor}]
                     [] k = "down" ->
                          /\ ui' = [m EXCEPT !.vcursor =
                                       Min(@ + 1, Len(dep.Versions))]
                          /\ UNCHANGED allDeps
                     [] OTHER -> ui' = m /\ UNCHANGED allDeps
           ELSE CASE k = "enter" ->
                     /\ ui' = [m EXCEPT !.done = TRUE]
                     /\ allDeps' = SelectDependencies(ui', allDeps)
                     /\ runPc' = "commit"
                  [] k = "right" ->
                     /\ ui' = [m EXCEPT !.state = "versionsView",
                                        !.vcursor =
                                            findCurrentVersionIndex(dep)]
                     /\ UNCHANGED <<allDeps, runPc>>
                  [] k = " " ->
                     /\ ui' = [m EXCEPT !.selected =
                                  IF m.cursor \in @ THEN @ \ {m.cursor}
                                  ELSE @ \cup {m.cursor}]
                     /\ UNCHANGED <<allDeps, runPc>>
                  [] k = "ctrl+a" ->
                     /\ ui' = [m EXCEPT !.selected = 1..Len(m.rows)]
                     /\ UNCHANGED <<allDeps, runPc>>
                  [] k = "ctrl+u" ->
                     /\ ui' = [m EXCEPT !.selected = {}]
                     /\ UNCHANGED <<allDeps, runPc>>
                  [] k = "down" ->
                     /\ ui' = [m EXCEPT !.cursor = Min(@ + 1, Len(m.rows))]
                     /\ UNCHANGED <<allDeps, runPc>>
                  [] OTHER -> ui' = m /\ UNCHANGED <<allDeps, runPc>>
    /\ UNCHANGED <<engineVars, selVars, storeVars, clientVars, sideVars,
                   runFlags,
                   runEnv, pkgFile, writes, installs, exitStatus, results>>

\* The end of ProcessDependencies: toUpdate is nil after a cancellation;
\* without a dependency to update nothing is written; the manifest is
\* rewritten otherwise, whatever flags.DryRun says, and a failure of the
\* write is returned to Run, which prints it.
RunCommit ==
    /\ runPc = "commit"
    /\ LET toUpdate == IF ui.quitting THEN <<>> ELSE allDeps
       IN  IF ~NeedToUpdate(toUpdate) \/ runEnv.fault = "writeFails"
           THEN runPc' = "exited" /\ UNCHANGED <<pkgFile, writes>>
           ELSE /\ pkgFile' = updatePackageJSON(pkgFile, toUpdate)
                /\ writes' = writes + 1
                /\ runPc' = IF runFlags.NoInstall THEN "exited"
                            ELSE "install"
    /\ UNCHANGED <<engineVars, selVars, storeVars, clientVars, sideVars,
                   runFlags,
                   runEnv, allDeps, ui, installs, exitStatus, results>>

\* p.PackageManager.Install(): a failure is logged as a warning.
RunInstall ==
    /\ runPc = "install"
    /\ installs' = installs + 1
    /\ runPc' = "exited"
    /\ UNCHANGED <<engineVars, selVars, storeVars, clientVars, sideVars,
                   runFlags,
                   runEnv, pkgFile, allDeps, ui, writes, exitStatus,
                   results>>

\* The Run function of the checkdeps command: CheckUnusedDependencies,
\* then ProcessCheckDepsResults when it returned results.
CheckAnalyse ==
    /\ runPc = "check"
    /\ IF runEnv.fault = "missing"
       THEN runPc' = "exited" /\ exitStatus' = 1 /\ UNCHANGED results
       ELSE /\ results' = analyzePackageDependencies(pkgFile, runEnv.used)
            /\ runPc' = IF runFlags.Fix THEN "fix" ELSE "exited"
            /\ UNCHANGED exitStatus
    /\ UNCHANGED <<engineVars, selVars, storeVars, clientVars, sideVars,
                   runFlags,
                   runEnv, pkgFile, allDeps, ui, writes, installs>>

\* fixUnusedDependencies: a dry run prints and returns; otherwise a
\* Dependency is built with NewDependency(name, "", ...) for every unused
\* name, the names NewDependency rejects are skipped, and the manifest is
\* rewritten when a Dependency is left.
CheckFix ==
    /\ runPc = "fix"
    /\ runPc' = "exited"
    /\ LET accepted(names) ==
               SelectSeq(names, LAMBDA n : IsValidEntry(Literal("")))
           prod == accepted(results.UnusedDependencies)
           dev == accepted(results.UnusedDevDependencies)
           modified == Len(prod) + Len(dev) > 0
       IN  IF runFlags.DryRun \/ ~modified
           THEN UNCHANGED <<pkgFile, writes>>
           ELSE /\ pkgFile' = RemoveKeys(pkgFile,
                                         { prod[i] : i \in 1..Len(prod) },
                                         { dev[i] : i \in 1..Len(dev) })
                /\ writes' = writes + 1
    /\ UNCHANGED <<engineVars, selVars, storeVars, clientVars, sideVars,
                   runFlags,
                   runEnv, allDeps, ui, installs, exitStatus, results>>

RunNext ==
    \/ RunMain
    \/ RunLoad
    \/ RunFetch
    \/ \E k \in UiKeys : RunKey(k)
    \/ RunCommit
    \/ RunInstall
    \/ CheckAnalyse
    \/ CheckFix

RunSpec == RunInit /\ [][RunNext]_vars

----------------------------------------------------------------------------
(* Properties of FetchNewVersions and FetchNewVersion.                     *)

\* The tasks that have been launched and still hold their semaphore slot.
InFlight == { d \in Deps : tpc[d] \in BodyPcs \cup {"release"} }

\* The task function of d has returned (its deferred function runs or ran).
Returned(d) == tpc[d] \in {"release", "wgDone", "memOpt", "exited"}

\* The task of d has signalled its termination to the WaitGroup.
Terminated(d) == tpc[d] \in {"memOpt", "exited"}

\* C1: at every instant the number of tasks that have been launched and
\* have not yet finished (given their slot back) is at most numWorkers, the
\* capacity of the semaphore.
C1_BoundedInFlight == Cardinality(InFlight) <= NumWorkers(flags)

\* The semaphore is full, and the launch loop waits on it with a dependency
\* still to launch.
C1_Witness ==
    /\ Cardinality(InFlight) = NumWorkers(flags)
    /\ sem = NumWorkers(flags)
    /\ mainPc = "acquire" /\ nextDep <= NDeps

\* C2: every task proceeds past both of its progress sends: no task ends
\* at a send.
C2_EveryTaskPassesItsSends == \A d \in Deps : tpc[d] # "sendPanic"

\* C3: a task that has returned has executed the send of its 'finished'
\* event, whatever the outcome of its lookup.
C3_FinishedAlwaysEmitted ==
    \A d \in Deps : Returned(d) => loc[d].finished \in {"sent", "dropped"}

C5_DeadlineLeavesRecord ==
    \A d \in Deps : (ctxDone[d] /\ Returned(d)) => deps[d] = NewDependency(d)

\* C6: a failed GET for one package stops no other task: no other
\* dependency's task ends without being resolved.
C6_GetFailureNotFatal ==
    \A d \in Deps : loc[d].err = "get" =>
        /\ deps[d].NextVersion = <<>>
        /\ \A e \in Deps \ {d} : tpc[e] # "sendPanic"

\* C7 as stated: when FetchNewVersions returns, every record is as it was
\* on entry or has NextVersion assigned.
C7_UntouchedOrAssigned ==
    mainPc = "returned" =>
        \A d \in Deps : \/ deps[d] = NewDependency(d)
                        \/ deps[d].NextVersion # <<>>

\* C7, amended: when FetchNewVersions returns, every record has its name,
\* current version and update mark as on entry; NextVersion is assigned
\* only by the selector, to a version greater than the current one; and a
\* record without NextVersion differs from its state on entry at most in
\* Versions and LatestVersion, which a restore or a GET has set.
C7_Amended ==
    mainPc = "returned" =>
        \A d \in Deps :
            LET r == deps[d]
                r0 == NewDependency(d)
            IN  /\ r.PackageName = r0.PackageName
                /\ r.CurrentVersion = r0.CurrentVersion
                /\ r.HaveToUpdate = r0.HaveToUpdate
                /\ r.NextVersion # <<>> =>
                      /\ loc[d].selected
                      /\ Compare(r.NextVersion[1], r.CurrentVersion) > 0
                /\ (r.NextVersion = <<>> /\ r # r0) =>
                      /\ [r EXCEPT !.Versions = r0.Versions,
                                   !.LatestVersion = r0.LatestVersion] = r0
                      /\ loc[d].restored \/ loc[d].gets > 0

\* FetchNewVersions has returned; one record has been through the selector
\* with its candidates replaced and has no NextVersion.
C7_Witness ==
    /\ mainPc = "returned"
    /\ \E d \in Deps : /\ loc[d].selected
                       /\ deps[d].NextVersion = <<>>
                       /\ deps[d].Versions.vs # <<>>

\* C8: when the cache held the Versions entry and the registry's ETag, both
\* were read, and the HEAD request succeeded, the task made at most one
\* HEAD request and no GET request.
C8_ETagShortcut ==
    \A d \in Deps :
        (loc[d].warm /\ ~loc[d].cacheFailed /\ loc[d].headOk) =>
            loc[d].heads <= 1 /\ loc[d].gets = 0

\* A task has run to its end on a warm cache with one HEAD and no GET.
C8_Witness ==
    \E d \in Deps : /\ tpc[d] = "exited"
                    /\ loc[d].warm /\ ~loc[d].cacheFailed /\ loc[d].headOk
                    /\ loc[d].heads = 1 /\ loc[d].gets = 0
                    /\ loc[d].selected

\* C9: a task that met a failure of the cache, and no failure of the
\* registry or deadline, has run the selector when it returns.
C9_CacheFailureIsMiss ==
    \A d \in Deps :
        (Returned(d) /\ loc[d].cacheFailed
                     /\ loc[d].err \notin {"get", "deadline"}) =>
            loc[d].selected

----------------------------------------------------------------------------
(* Properties of the selector.                                             *)

\* Semver precedence (semver.org, item 11), on the numeric values.
RECURSIVE NumVal(_)
NumVal(s) ==
    IF s = <<>> THEN 0
    ELSE NumVal(SubSeq(s, 1, Len(s) - 1)) * 10 + s[Len(s)]

IdentPrecedes(a, b) ==
    IF isNum(a) /\ isNum(b) THEN NumVal(a) < NumVal(b)
    ELSE IF isNum(a) THEN TRUE
    ELSE IF isNum(b) THEN FALSE
    ELSE StrLess(a, b)

RECURSIVE PrePrecedes(_, _)
PrePrecedes(x, y) ==
    IF x = <<>> THEN y # <<>>
    ELSE IF y = <<>> THEN FALSE
    ELSE IF Head(x) = Head(y) THEN PrePrecedes(Tail(x), Tail(y))
    ELSE IdentPrecedes(Head(x), Head(y))

SemverPrecedes(a, b) ==
    /\ a.isValid /\ b.isValid
    /\ LET a1 == NumVal(a.major)
           a2 == NumVal(a.minor)
           a3 == NumVal(a.patch)
           b1 == NumVal(b.major)
           b2 == NumVal(b.minor)
           b3 == NumVal(b.patch)
       IN  \/ a1 < b1
           \/ a1 = b1 /\ a2 < b2
           \/ a1 = b1 /\ a2 = b2 /\ a3 < b3
           \/ /\ a1 = b1 /\ a2 = b2 /\ a3 = b3
              /\ a.prerelease # <<>>
              /\ \/ b.prerelease = <<>>
                 \/ PrePrecedes(a.prerelease, b.prerelease)

\* C10: a version the selector returns is strictly greater than the
\* current version under semver precedence, for every current version,
\* candidate list and flag combination.
C10_MonotoneSelection ==
    (selPc = "done" /\ selResult # <<>>) =>
        SemverPrecedes(selCur, selResult[1])

\* The selector has gone from 1.9.0 to 1.10.0.
C10_Witness ==
    /\ selPc = "done" /\ selResult # <<>>
    /\ selCur.minor = d9 /\ selResult[1].minor = d10

\* C11: under --patch a version the selector returns has the major and
\* minor of the current version; under --minor without --patch it has the
\* major of the current version.
C11_ScopeContainment ==
    (selPc = "done" /\ selResult # <<>>) =>
        /\ selFlags.Patch =>
              /\ NumVal(selResult[1].major) = NumVal(selCur.major)
              /\ NumVal(selResult[1].minor) = NumVal(selCur.minor)
        /\ (selFlags.Minor /\ ~selFlags.Patch) =>
              NumVal(selResult[1].major) = NumVal(selCur.major)

\* Under --patch the selector has returned a version although a greater
\* candidate of another minor or major was on offer.
C11_Witness ==
    /\ selPc = "done" /\ selResult # <<>> /\ selFlags.Patch
    /\ \E i \in 1..Len(selVersions) :
          /\ Compare(selVersions[i], selResult[1]) > 0
          /\ selVersions[i].prerelease = <<>>
          /\ selVersions[i].minor # selCur.minor

\* C12: with --pre off a version the selector returns has no prerelease
\* identifiers, whatever the candidates and the other flags.
C12_PrereleaseExclusion ==
    (selPc = "done" /\ selResult # <<>> /\ ~selFlags.Pre) =>
        selResult[1].prerelease = <<>>

\* With --pre off the selector has returned a release although a greater
\* prerelease was on offer.
C12_Witness ==
    /\ selPc = "done" /\ selResult # <<>> /\ ~selFlags.Pre
    /\ \E i \in 1..Len(selVersions) :
          /\ selVersions[i].isValid
          /\ selVersions[i].prerelease # <<>>
          /\ Compare(selVersions[i], selResult[1]) > 0

\* C13: with --keepRange on and a current version that begins with ^, ~,
\* >= or >, the string of the version the selector returns begins with the
\* same operator.
C13_OperatorPreservation ==
    (/\ selPc = "done" /\ selResult # <<>>
     /\ selFlags.KeepRangeOperator
     /\ selCur.prefix \in {"^", "~", ">=", ">"}) =>
        StringWithPrefix(selResult[1]).operator = selCur.prefix

\* With --keepRange on the selector has returned a version for a current
\* version that begins with >=.
C13_Witness ==
    /\ selPc = "done" /\ selResult # <<>>
    /\ selFlags.KeepRangeOperator
    /\ selCur.prefix = ">="
    /\ StringWithPrefix(selResult[1]).operator = ">="

\* C14: with --skipDeprecated on a version the selector returns is not
\* marked as deprecated.
C14_SkipDeprecated ==
    (selPc = "done" /\ selResult # <<>> /\ selFlags.SkipDeprecated) =>
        ~selResult[1].deprecated

----------------------------------------------------------------------------
(* Properties of the cache.                                                *)

\* C16: restoring what Save(v) stored yields a collection equal to v: the
\* same version strings with the same weight and deprecated bit, in the
\* same order.
C16_RoundTrip ==
    stPc = "restored" => stRestored = stOrig

\* What the on-disk store holds for a key, as Get would return it.
OnDisk(key) == IF db[key] = <<>> THEN <<>> ELSE <<tryDecompress(db[key][1])>>

\* C17: a completed Set(k, b), successful or failed, has updated both
\* tiers: it never leaves one tier holding b and the other not.  (Stated
\* for a Set that ran alone.)
C17_SetUpdatesBothTiers ==
    \A c \in Callers :
        (/\ setPc[c] \in {"ok", "failed"}
         /\ \A o \in Callers \ {c} : setPc[o] = "call")
        => (memCache[SetKey] = <<setVal[c]>> <=> OnDisk(SetKey) = <<setVal[c]>>)

\* C18: once concurrent Sets on one key have all completed, memory and disk
\* hold the same value for the key, the payload of one of the calls.
C18_LastWriteWins ==
    (\A c \in Callers : setPc[c] = "ok")
    => /\ memCache[SetKey] = OnDisk(SetKey)
       /\ \E c \in Callers : memCache[SetKey] = <<setVal[c]>>

----------------------------------------------------------------------------
(* Properties of the registry client.                                      *)

\* C19: a Head or Get call puts at most one HTTP request on the wire, and
\* a transport failure or a status other than 200 is returned to the
\* caller as an error, the request not being sent again.
C19_NoSilentRetry ==
    /\ Len(cliSent) <= 1
    /\ (cliPc = "returned" /\ cliSent # <<>>
        /\ (cliSent[1].answer.failed \/ cliSent[1].answer.status # 200))
       => cliResult # <<"">>

\* A call whose only request was answered with status 500 has returned the
\* error.
C19_Witness ==
    /\ cliPc = "returned"
    /\ Len(cliSent) = 1
    /\ cliSent[1].answer = [failed |-> FALSE, status |-> 500]
    /\ cliResult = <<"npm registry error">>

\* The scopes a .npmrc file declares: the non-empty prefixes of its
\* "<scope>:registry" keys.
DeclaredScopes(file) ==
    { TrimSuffix(file.lines[i].key, <<":registry">>) :
        i \in { j \in 1..Len(file.lines) :
                 HasSuffix(file.lines[j].key, <<":registry">>) } } \ {<<>>}

\* C20: a request goes to a registry other than the default one, or carries
\* an Authorization header, only when the package name starts with a scope
\* the .npmrc file declares.
C20_CredentialsOnlyForScope ==
    \A i \in 1..Len(cliSent) :
        (\/ cliSent[i].request.registryURL # DefaultRegistry
         \/ cliSent[i].request.Authorization # <<>>)
        => \E sc \in DeclaredScopes(cliCall.file) :
              HasPrefix(cliCall.packageName, sc)


\* C27: a task issues a HEAD request only after Restore succeeded, and a
\* task that reached the selector without a GET request had its Versions
\* restored from the cache: when Restore failed the task issues the GET,
\* whatever ETag entry the cache holds.
C27_SkipOnlyAfterRestore ==
    \A d \in Deps :
        /\ loc[d].heads > 0 => loc[d].restored
        /\ (loc[d].selected /\ loc[d].gets = 0) => loc[d].restored
        /\ (tpc[d] = "head" \/ (tpc[d] = "select" /\ loc[d].gets = 0))
              => loc[d].restored

\* Restore failed while the cache holds the registry's ETag for the
\* package, and the task has issued its GET without any HEAD.
C27_Witness ==
    \E d \in Deps : /\ tpc[d] = "setEtag"
                    /\ ~loc[d].restored
                    /\ Cached(EtagKey(d)) # <<>>
                    /\ Cached(EtagKey(d))[1].text = RegistryEtag
                    /\ loc[d].gets = 1 /\ loc[d].heads = 0

\* Rules 1 to 5 of the decision table, on the numeric values: v is not
\* skipped for cur under the flags.
PassesRules(cur, v, fl) ==
    /\ SemverPrecedes(cur, v)
    /\ fl.MaintainSemver => Check(cur, v)
    /\ (v.prerelease # <<>>) => fl.Pre
    /\ fl.Patch => /\ NumVal(v.major) = NumVal(cur.major)
                   /\ NumVal(v.minor) = NumVal(cur.minor)
    /\ (fl.Minor /\ ~fl.Patch) => NumVal(v.major) = NumVal(cur.major)

\* C28: the version the selector returns is the first candidate of the
\* descending list that rules 1 to 5 do not skip, and no candidate that
\* passes the rules has a higher precedence.
C28_FirstSurvivor ==
    selResult # <<>> =>
        /\ \E i \in 1..Len(selVersions) :
              /\ StringWithPrefix(selVersions[i]).version
                    = StringWithPrefix(selResult[1]).version
              /\ PassesRules(selCur, selVersions[i], selFlags)
              /\ \A j \in 1..(i - 1) :
                    ~PassesRules(selCur, selVersions[j], selFlags)
        /\ \A i \in 1..Len(selVersions) :
              PassesRules(selCur, selVersions[i], selFlags) =>
                  ~SemverPrecedes(selResult[1], selVersions[i])

\* Two candidates pass the rules and the selector has returned the first
\* of them, after a candidate that does not pass.
C28_Witness ==
    /\ selPc = "done" /\ selResult # <<>> /\ Len(selVersions) = 2
    /\ ~PassesRules(selCur, selVersions[1], selFlags)
    /\ PassesRules(selCur, selVersions[2], selFlags)
    /\ StringWithPrefix(selVersions[2]).version
          = StringWithPrefix(selResult[1]).version

----------------------------------------------------------------------------
(* Properties of a run: the manifest, the selector, the exit status.       *)

\* The change set of a rewrite holds the package of a bucket.
InChangeSet(section, name) ==
    /\ section \in DOMAIN depSections
    /\ \E i \in 1..Len(allDeps) :
          /\ allDeps[i].HaveToUpdate
          /\ allDeps[i].PackageName = name
          /\ allDeps[i].Env = depSections[section]

\* C21: after the manifest was rewritten every key of the document, at the
\* top level and in the buckets, is at the position it had, and every
\* value is the one it had, but for the package keys of the change set.
C21_FramePreserved ==
    writes > 0 =>
        /\ Len(pkgFile) = Len(runEnv.manifest)
        /\ \A i \in 1..Len(runEnv.manifest) :
            LET old == runEnv.manifest[i]
                new == pkgFile[i]
            IN  /\ new.key = old.key
                /\ new.isObject = old.isObject
                /\ new.text = old.text
                /\ Len(new.members) = Len(old.members)
                /\ \A j \in 1..Len(old.members) :
                      /\ new.members[j].key = old.members[j].key
                      /\ new.members[j].val # old.members[j].val =>
                            InChangeSet(old.key, old.members[j].key)

\* A rewrite has changed the first package of a bucket and left the
\* second, which had a next version on offer and was not selected.
C21_Witness ==
    /\ runPc = "exited" /\ writes = 1
    /\ \E i \in 1..Len(pkgFile) :
          /\ pkgFile[i].key = "dependencies"
          /\ Len(pkgFile[i].members) = 2
          /\ pkgFile[i].members[1].val # runEnv.manifest[i].members[1].val
          /\ pkgFile[i].members[2].val = runEnv.manifest[i].members[2].val
          /\ \E d \in 1..Len(allDeps) :
                /\ allDeps[d].PackageName = pkgFile[i].members[2].key
                /\ allDeps[d].Env = "prod"
                /\ allDeps[d].NextVersion # <<>>
                /\ ~allDeps[d].HaveToUpdate

\* The names a bucket of the document declares.
Declared(doc, section) == KeySet(BucketOf(doc, section))

\* C22: after the fix path of the unused-dependency check has run, every
\* dependency the analysis reported as unused is gone from its bucket, and
\* every other declared dependency is still there.
C22_UnusedRemoved ==
    (/\ runPc = "exited" /\ runEnv.cmd = "checkdeps"
     /\ runEnv.fault = "none" /\ runFlags.Fix /\ ~runFlags.DryRun) =>
        LET unusedProd == { results.UnusedDependencies[i] :
                              i \in 1..Len(results.UnusedDependencies) }
            unusedDev == { results.UnusedDevDependencies[i] :
                             i \in 1..Len(results.UnusedDevDependencies) }
        IN  /\ Declared(pkgFile, "dependencies")
                 = Declared(runEnv.manifest, "dependencies") \ unusedProd
            /\ Declared(pkgFile, "devDependencies")
                 = Declared(runEnv.manifest, "devDependencies") \ unusedDev

\* C23: with dry-run on no manifest file is written, on the update path
\* and on the fix path of the unused-dependency check alike.
C23_DryRunWritesNothing ==
    runFlags.DryRun => (writes = 0 /\ pkgFile = runEnv.manifest)

\* C24: once q or an interrupt was pressed, in the dependency list or in
\* the version picker, no dependency is marked should-update, no manifest
\* is written and no install is run.
C24_CancelWritesNothing ==
    ui.quitting =>
        /\ \A i \in 1..Len(allDeps) : ~allDeps[i].HaveToUpdate
        /\ writes = 0 /\ pkgFile = runEnv.manifest
        /\ installs = 0
        /\ runPc \in {"commit", "exited"}

\* The run has ended after a cancellation that came when a row was
\* selected through the version picker.
C24_Witness ==
    /\ runPc = "exited" /\ ui.quitting /\ ~runFlags.NoInstall
    /\ ui.selected # {}
    /\ \E i \in 1..Len(allDeps) :
          /\ allDeps[i].NextVersion # <<>>
          /\ allDeps[i].NextVersion # Fetched(allDeps[i]).NextVersion

\* The run has ended on an error it cannot recover from: a flag that does
\* not parse, a missing or malformed manifest, or a failed write of the
\* manifest.
EndedOnError ==
    /\ runPc = "exited"
    /\ \/ runEnv.fault \in {"badFlag", "missing", "malformed"}
       \/ /\ runEnv.fault = "writeFails" /\ ~ui.quitting
          /\ NeedToUpdate(allDeps)

\* C25: a run that ends on an unrecoverable error ends with a non-zero
\* exit status.
C25_ErrorExitsNonZero == EndedOnError => exitStatus # 0

\* The analysis of the checkdeps command has produced its results.
Analysed ==
    /\ runEnv.cmd = "checkdeps" /\ runEnv.fault = "none"
    /\ runPc \in {"fix", "exited"}

\* C26: the unused production dependencies are the declared production
\* dependencies that are not in the used set and are not also declared as
\* peer or optional dependencies; the unused development dependencies are
\* the declared development dependencies that are not in the used set.
C26_UnusedSets ==
    Analysed =>
        /\ { results.UnusedDependencies[i] :
               i \in 1..Len(results.UnusedDependencies) }
             = Declared(runEnv.manifest, "dependencies")
                 \ (runEnv.used
                    \cup Declared(runEnv.manifest, "peerDependencies")
                    \cup Declared(runEnv.manifest, "optionalDependencies"))
        /\ { results.UnusedDevDependencies[i] :
               i \in 1..Len(results.UnusedDevDependencies) }
             = Declared(runEnv.manifest, "devDependencies") \ runEnv.used

\* Package a is declared as a production and as a peer dependency, is not
\* used and is not reported, while the unused development dependency c
\* is.
C26_Witness ==
    /\ Analysed
    /\ "a" \in Declared(runEnv.manifest, "dependencies")
    /\ "a" \in Declared(runEnv.manifest, "peerDependencies")
    /\ "a" \notin runEnv.used
    /\ \A i \in 1..Len(results.UnusedDependencies) :
          results.UnusedDependencies[i] # "a"
    /\ results.UnusedDevDependencies = <<"c">>

\* C29: a dependency whose manifest entry is the literal latest, * or the
\* empty string is still resolved, and the selector gives it the
\* candidate of highest precedence.
C29_LiteralTakesHighest ==
    (/\ runEnv.cmd = "update" /\ runEnv.fault = "none"
     /\ runPc \in {"ui", "commit"} /\ ui.keys = 0) =>
        \A j \in 1..Len(BucketOf(runEnv.manifest, "dependencies")) :
            LET m == BucketOf(runEnv.manifest, "dependencies")[j]
            IN  ~IsValidEntry(m.val) =>
                    \E i \in 1..Len(allDeps) :
                        /\ allDeps[i].PackageName = m.key
                        /\ allDeps[i].Env = "prod"
                        /\ allDeps[i].NextVersion # <<>>
                        /\ VersionStr(allDeps[i].NextVersion[1])
                             = RunCandidates[1]

\* C30: after the resolution and any key presses in the selector, the
\* version picker included, the next version of a dependency, when set,
\* is not lower than its current version.
C30_NextNotBelowCurrent ==
    \A i \in 1..Len(allDeps) :
        allDeps[i].NextVersion # <<>> =>
            Compare(allDeps[i].NextVersion[1],
                    allDeps[i].CurrentVersion) >= 0

----------------------------------------------------------------------------
(* FetchNewVersionsBatch (updater.go): the batches are handed, each by a   *)
(* goroutine of its own, to FetchNewVersions, all on the two channels of   *)
(* the caller.  Of the dependencies of a batch one task is followed.       *)

\* number of batches the dependencies are divided into
NBatches == 2
Batches == 1..NBatches

\* close(ch) by a goroutine: the channel after it and whether it panicked.
CloseChan(ch) == [closed |-> TRUE, closes |-> ch.closes + 1]

BatchInit ==
    /\ EngineIdle /\ SelIdle /\ StoreIdle /\ ClientIdle /\ RunIdle
    /\ FnIdle /\ BarIdle /\ PipeIdle
    /\ bMain = "launch" /\ bNext = 1 /\ bWg = 0
    /\ bSem \in [held : {0}, cap : 1..MaxCPUs]
    /\ bFn = [b \in Batches |-> "queued"]
    /\ bTask = [b \in Batches |-> "idle"]
    /\ bCloser = [b \in Batches |-> "idle"]
    /\ bChans = [c \in {"processed", "currentPackage"} |->
                    [closed |-> FALSE, closes |-> 0]]
    /\ bPanic = ""

\* The launch loop: semaphore <- struct{}{}; wg.Add(1); go func(batch).
BatchLaunch ==
    /\ bPanic = "" /\ bMain = "launch" /\ bNext <= NBatches
    /\ bSem.held < bSem.cap
    /\ bSem' = [bSem EXCEPT !.held = @ + 1]
    /\ bWg' = bWg + 1
    /\ bFn' = [bFn EXCEPT ![bNext] = "start"]
    /\ bNext' = bNext + 1
    /\ UNCHANGED <<engineVars, selVars, storeVars, clientVars, runVars,
                   sideButBatch,
                   bMain, bTask, bCloser, bChans, bPanic>>

\* FetchNewVersions of batch b starts the goroutine that closes the
\* channels (wg.Wait(); close(processed); close(currentPackage)).
BatchFnStart(b) ==
    /\ bPanic = "" /\ bFn[b] = "start"
    /\ bFn' = [bFn EXCEPT ![b] = "launch"]
    /\ bCloser' = [bCloser EXCEPT ![b] = "wait"]
    /\ UNCHANGED <<engineVars, selVars, storeVars, clientVars, runVars,
                   sideButBatch,
                   bMain, bNext, bSem, bWg, bTask, bChans, bPanic>>

\* Its launch loop: wg.Add(1) and the task of the dependency.
BatchFnLaunch(b) ==
    /\ bPanic = "" /\ bFn[b] = "launch"
    /\ bFn' = [bFn EXCEPT ![b] = "wait"]
    /\ bTask' = [bTask EXCEPT ![b] = "sendStarted"]
    /\ UNCHANGED <<engineVars, selVars, storeVars, clientVars, runVars,
                   sideButBatch,
                   bMain, bNext, bSem, bWg, bCloser, bChans, bPanic>>

\* The two selects of the task: a send on the channel, which panics when
\* the channel is closed, or the default case or the return on ctx.Done(),
\* after which the model does not follow the task further.
BatchTaskSend(b) ==
    /\ bPanic = "" /\ bTask[b] \in {"sendStarted", "sendFinished"}
    /\ LET ch == IF bTask[b] = "sendStarted" THEN "currentPackage"
                 ELSE "processed"
       IN  \/ /\ bChans[ch].closed
              /\ bPanic' = "send on closed channel"
              /\ UNCHANGED bTask
           \/ /\ ~bChans[ch].closed
              /\ bTask' = [bTask EXCEPT ![b] =
                              IF @ = "sendStarted" THEN "sendFinished"
                              ELSE "done"]
              /\ UNCHANGED bPanic
           \/ /\ bTask' = [bTask EXCEPT ![b] = "done"]
              /\ UNCHANGED bPanic
    /\ UNCHANGED <<engineVars, selVars, storeVars, clientVars, runVars,
                   sideButBatch,
                   bMain, bNext, bSem, bWg, bFn, bCloser, bChans>>

\* wg.Wait() of the closing goroutine of batch b returns when the counter
\* of the call is zero: no task of it is running.
BatchCloserWait(b) ==
    /\ bPanic = "" /\ bCloser[b] = "wait"
    /\ bTask[b] \in {"idle", "done"}
    /\ bCloser' = [bCloser EXCEPT ![b] = "closeProcessed"]
    /\ UNCHANGED <<engineVars, selVars, storeVars, clientVars, runVars,
                   sideButBatch,
                   bMain, bNext, bSem, bWg, bFn, bTask, bChans, bPanic>>

\* close(processed), then close(currentPackage), by that goroutine; the
\* close of a closed channel panics.
BatchCloserClose(b) ==
    /\ bPanic = "" /\ bCloser[b] \in {"closeProcessed", "closeCurrent"}
    /\ LET ch == IF bCloser[b] = "closeProcessed" THEN "processed"
                 ELSE "currentPackage"
       IN  /\ bChans' = [bChans EXCEPT ![ch] = CloseChan(@)]
           /\ bPanic' = IF bChans[ch].closed THEN "close of closed channel"
                        ELSE ""
    /\ bCloser' = [bCloser EXCEPT ![b] =
                      IF @ = "closeProcessed" THEN "closeCurrent" ELSE "done"]
    /\ UNCHANGED <<engineVars, selVars, storeVars, clientVars, runVars,
                   sideButBatch,
                   bMain, bNext, bSem, bWg, bFn, bTask>>

\* The wg.Wait() that ends FetchNewVersions of batch b, and the deferred
\* <-semaphore and wg.Done() of the goroutine that called it.
BatchFnReturn(b) ==
    /\ bPanic = "" /\ bFn[b] = "wait" /\ bTask[b] = "done"
    /\ bFn' = [bFn EXCEPT ![b] = "returned"]
    /\ bSem' = [bSem EXCEPT !.held = @ - 1]
    /\ bWg' = bWg - 1
    /\ UNCHANGED <<engineVars, selVars, storeVars, clientVars, runVars,
                   sideButBatch,
                   bMain, bNext, bTask, bCloser, bChans, bPanic>>

\* wg.Wait() of FetchNewVersionsBatch, after the last batch was launched.
BatchWait ==
    /\ bPanic = "" /\ bMain = "launch" /\ bNext > NBatches /\ bWg = 0
    /\ bMain' = "closeProcessed"
    /\ UNCHANGED <<engineVars, selVars, storeVars, clientVars, runVars,
                   sideButBatch,
                   bNext, bSem, bWg, bFn, bTask, bCloser, bChans, bPanic>>

\* close(processed), then close(currentPackage), by FetchNewVersionsBatch.
BatchClose ==
    /\ bPanic = "" /\ bMain \in {"closeProcessed", "closeCurrent"}
    /\ LET ch == IF bMain = "closeProcessed" THEN "processed"
                 ELSE "currentPackage"
       IN  /\ bChans' = [bChans EXCEPT ![ch] = CloseChan(@)]
           /\ bPanic' = IF bChans[ch].closed THEN "close of closed channel"
                        ELSE ""
    /\ bMain' = IF bMain = "closeProcessed" THEN "closeCurrent"
                ELSE "returned"
    /\ UNCHANGED <<engineVars, selVars, storeVars, clientVars, runVars,
                   sideButBatch,
                   bNext, bSem, bWg, bFn, bTask, bCloser>>

BatchNext ==
    \/ BatchLaunch
    \/ BatchWait
    \/ BatchClose
    \/ \E b \in Batches :
          \/ BatchFnStart(b)
          \/ BatchFnLaunch(b)
          \/ BatchTaskSend(b)
          \/ BatchCloserWait(b)
          \/ BatchCloserClose(b)
          \/ BatchFnReturn(b)

BatchSpec == BatchInit /\ [][BatchNext]_vars

----------------------------------------------------------------------------
(* Functions applied to one input: the deadline a task of FetchNewVersions *)
(* is given, and the parser of package semver.  A version string is the    *)
(* sequence of its characters.                                             *)

\* largest --timeout value tried
MaxTimeout == 160
\* time.Duration counts nanoseconds in 64 bits, two's complement; the model
\* counts seconds in DurationBits bits, so that a product which does not
\* fit wraps around as it does in Go.
DurationBits == 7

\* time.Duration(n) * time.Second
Seconds(n) ==
    LET r == n % (2 ^ DurationBits)
    IN  IF r >= 2 ^ (DurationBits - 1) THEN r - 2 ^ DurationBits ELSE r

\* The timeout of the context of a task, in seconds: flags.Timeout, and 30
\* when that is more.
timeoutDuration_Uncapped(t) == Seconds(t)
timeoutDuration(t) == IF Seconds(t) > 30 THEN 30 ELSE Seconds(t)

Digits == {"0", "1", "2", "3"}
\* isIdentChar, over the characters of the model
isIdentChar(c) == c \in Digits \cup {"a", "b", "v", "x", "-"}

\* parseInt: the longest run of digits v starts with, which must not be
\* empty nor have a leading zero: [t, rest, ok].
parseInt(v) ==
    LET i == CHOOSE k \in 0..Len(v) :
                 /\ \A j \in 1..k : v[j] \in Digits
                 /\ k < Len(v) => v[k + 1] \notin Digits
    IN  IF i = 0 \/ (v[1] = "0" /\ i # 1)
        THEN [t |-> <<>>, rest |-> <<>>, ok |-> FALSE]
        ELSE [t |-> SubSeq(v, 1, i), rest |-> SubSeq(v, i + 1, Len(v)),
              ok |-> TRUE]

\* The test parsePrerelease and parseBuild make of the identifiers after
\* the hyphen or the plus: characters of identifiers and dots only, no
\* identifier empty, and for a prerelease (nums) none that isBadNum, a
\* number of several digits with a leading zero.
IdentsOk(x, nums) ==
    /\ x # <<>> /\ x[1] # "." /\ x[Len(x)] # "."
    /\ \A i \in 1..Len(x) : isIdentChar(x[i]) \/ x[i] = "."
    /\ \A i \in 1..(Len(x) - 1) : ~(x[i] = "." /\ x[i + 1] = ".")
    /\ nums => ~\E a, b \in 1..Len(x) :
                  /\ a < b /\ x[a] = "0"
                  /\ a = 1 \/ x[a - 1] = "."
                  /\ b = Len(x) \/ x[b + 1] = "."
                  /\ \A j \in a..b : x[j] \in Digits

\* parsePrerelease of a string that starts with a hyphen: up to the first
\* plus sign or the end.
parsePrerelease(v) ==
    LET plus == { i \in 2..Len(v) : v[i] = "+" }
        stop == IF plus = {} THEN Len(v) + 1
                ELSE CHOOSE i \in plus : \A j \in plus : i <= j
    IN  IF IdentsOk(SubSeq(v, 2, stop - 1), TRUE)
        THEN [t |-> SubSeq(v, 1, stop - 1), rest |-> SubSeq(v, stop, Len(v)),
              ok |-> TRUE]
        ELSE [t |-> <<>>, rest |-> <<>>, ok |-> FALSE]

\* parseBuild of a string that starts with a plus sign: up to the end.
parseBuild(v) ==
    IF IdentsOk(Tail(v), FALSE)
    THEN [t |-> v, rest |-> <<>>, ok |-> TRUE]
    ELSE [t |-> <<>>, rest |-> <<>>, ok |-> FALSE]

\* getPrefix: the first of ">=", ">", "^", "~" the string starts with.
getPrefix(v) ==
    IF HasPrefix(v, <<">", "=">>) THEN <<">", "=">>
    ELSE IF HasPrefix(v, <<">">>) THEN <<">">>
    ELSE IF HasPrefix(v, <<"^">>) THEN <<"^">>
    ELSE IF HasPrefix(v, <<"~">>) THEN <<"~">>
    ELSE <<>>

\* parse: [ok, panic, prefix, major, minor, patch, prerelease, build].  The
\* first component is read by parseInt(v[1:]), from the second character
\* of what follows the prefix; v[1:] of an empty string panics.
parse(v0) ==
    LET Result(ok, panic, prefix, major, minor, patch, pre, build) ==
            [ok |-> ok, panic |-> panic, prefix |-> prefix, major |-> major,
             minor |-> minor, patch |-> patch, prerelease |-> pre,
             build |-> build]
        Invalid == Result(FALSE, FALSE, <<>>, <<>>, <<>>, <<>>, <<>>, <<>>)
        None(rest) == [t |-> <<>>, rest |-> rest, ok |-> TRUE]
    IN  IF v0 = <<>> THEN Invalid
        ELSE
        LET v1 == IF v0[1] = "v" THEN Tail(v0) ELSE v0
            prefix == getPrefix(v1)
            v2 == SubSeq(v1, Len(prefix) + 1, Len(v1))
        IN  IF v2 = <<>>
            THEN Result(FALSE, TRUE, <<>>, <<>>, <<>>, <<>>, <<>>, <<>>)
            ELSE
            LET a == parseInt(Tail(v2))
            IN  IF ~a.ok THEN Invalid
                ELSE IF a.rest = <<>>
                THEN Result(TRUE, FALSE, prefix, a.t, <<"0">>, <<"0">>,
                            <<>>, <<>>)
                ELSE IF a.rest[1] # "." THEN Invalid
                ELSE
                LET b == parseInt(Tail(a.rest))
                IN  IF ~b.ok THEN Invalid
                    ELSE IF b.rest = <<>>
                    THEN Result(TRUE, FALSE, prefix, a.t, b.t, <<"0">>,
                                <<>>, <<>>)
                    ELSE IF b.rest[1] # "." THEN Invalid
                    ELSE
                    LET c == parseInt(Tail(b.rest))
                        p == IF c.ok /\ c.rest # <<>> /\ c.rest[1] = "-"
                             THEN parsePrerelease(c.rest) ELSE None(c.rest)
                        q == IF p.ok /\ p.rest # <<>> /\ p.rest[1] = "+"
                             THEN parseBuild(p.rest) ELSE None(p.rest)
                    IN  IF ~c.ok \/ ~p.ok \/ ~q.ok \/ q.rest # <<>>
                        THEN Invalid
                        ELSE Result(TRUE, FALSE, prefix, a.t, b.t, c.t,
                                    p.t, q.t)

\* The strings handed to the parser: an optional v, an optional range
\* operator, one to three components joined by dots, and after three
\* components what may follow the patch.
ParseInputs ==
    LET Nums == { <<"0">>, <<"1">>, <<"2">>, <<"3">>, <<"1", "1">>,
                  <<"0", "1">>, <<>>, <<"a">> }
        After == { <<>>, <<"-", "a">>, <<"+", "b">>,
                   <<"-", "a", "+", "b">>, <<"-", "1", ".", "a">>,
                   <<"-">>, <<"-", "0", "1">>, <<"+">>, <<"x">>,
                   <<"-", "a", ".", ".", "b">> }
        Cores == Nums
                 \cup { a \o <<".">> \o b : a, b \in Nums }
                 \cup { a \o <<".">> \o b \o <<".">> \o c \o t :
                        a, b, c \in Nums, t \in After }
    IN  { v \o op \o core :
            v \in {<<>>, <<"v">>},
            op \in {<<>>, <<"^">>, <<"~">>, <<">">>, <<">", "=">>},
            core \in Cores }

FnInit ==
    /\ EngineIdle /\ SelIdle /\ StoreIdle /\ ClientIdle /\ RunIdle
    /\ BatchIdle /\ BarIdle /\ PipeIdle
    /\ fnPc = "ready" /\ fnOut = <<>>
    /\ fnIn \in [fn : {"parse"}, arg : ParseInputs]
                \cup [fn : {"timeout"}, arg : 1..MaxTimeout]

\* NewSemver(version)
FnParse ==
    /\ fnPc = "ready" /\ fnIn.fn = "parse"
    /\ fnOut' = parse(fnIn.arg)
    /\ fnPc' = "done"
    /\ UNCHANGED <<engineVars, selVars, storeVars, clientVars, runVars,
                   sideButFn, fnIn>>

\* The task of a dependency creates its context:
\* context.WithTimeout(context.Background(), timeoutDuration).  fnOut is
\* the number of seconds from the start of the task to its deadline.
FnWithTimeout ==
    /\ fnPc = "ready" /\ fnIn.fn = "timeout"
    /\ fnOut' = timeoutDuration(fnIn.arg)
    /\ fnPc' = "done"
    /\ UNCHANGED <<engineVars, selVars, storeVars, clientVars, runVars,
                   sideButFn, fnIn>>

FnNext == FnParse \/ FnWithTimeout

FnSpec == FnInit /\ [][FnNext]_vars

----------------------------------------------------------------------------
(* The progress bar: ProcessDependencies (packagejson.go) starts the       *)
(* resolution, a goroutine that turns the events of the two channels into  *)
(* messages for the bar, and the bar (progress.go); the resolution is the  *)
(* FetchNewVersions this revision calls, a pool of workers that send both  *)
(* events of every dependency and leave the channels open.                 *)

\* totalDeps: number of dependencies of the manifest
BarDeps == 3
BarJobs == 1..BarDeps

\* progressModel.Update for a ProgressMsg: the index is taken, and at a
\* percentage of 1.0 or more the model is done and the program is told to
\* quit; below it the bar is set to the percentage.  A percentage is the
\* pair of the dividend and the divisor it was computed from.
progressUpdate_Early(m, msg) ==
    LET m1 == [m EXCEPT !.index = msg.CurrentPackageIndex,
                        !.sent = Append(@, msg.Percentage)]
    IN  IF 2 * msg.Percentage[1] >= msg.Percentage[2]
        THEN [m1 EXCEPT !.done = TRUE, !.quit = TRUE]
        ELSE [m1 EXCEPT !.percent = msg.Percentage]
progressUpdate(m, msg) ==
    LET m1 == [m EXCEPT !.index = msg.CurrentPackageIndex,
                        !.sent = Append(@, msg.Percentage)]
    IN  IF msg.Percentage[1] >= msg.Percentage[2]
        THEN [m1 EXCEPT !.done = TRUE, !.quit = TRUE]
        ELSE [m1 EXCEPT !.percent = msg.Percentage]

\* ProcessDependencies has made the channels (buffers of totalDeps values),
\* the bar and the two goroutines, and calls bar.Run().
BarInit ==
    /\ EngineIdle /\ SelIdle /\ StoreIdle /\ ClientIdle /\ RunIdle
    /\ BatchIdle /\ FnIdle /\ PipeIdle
    /\ pgMain = "run"
    /\ pgTask = [d \in BarJobs |-> "job"]
    /\ pgChans = [currentPackage |-> 0, processed |-> 0]
    /\ pgLoop = "select" /\ pgCount = 0 /\ pgSome = FALSE
    /\ pgBar = [percent |-> <<0, BarDeps>>, index |-> 0, done |-> FALSE,
                quit |-> FALSE, packageName |-> 0, sent |-> <<>>]

\* A worker takes the job of dependency d: currentPackage <- name.
PgStarted(d) ==
    /\ pgTask[d] = "job" /\ pgChans.currentPackage < BarDeps
    /\ pgChans' = [pgChans EXCEPT !.currentPackage = @ + 1]
    /\ pgTask' = [pgTask EXCEPT ![d] = "fetch"]
    /\ UNCHANGED <<engineVars, selVars, storeVars, clientVars, runVars,
                   sideButBar, pgMain, pgLoop, pgCount, pgSome, pgBar>>

\* dep.GetNewVersion: with a new version the worker goes on to
\* updateNotification <- true, without one to processed <- true.
PgFetch(d) ==
    /\ pgTask[d] = "fetch"
    /\ \E new \in BOOLEAN :
          pgTask' = [pgTask EXCEPT ![d] = IF new THEN "notify"
                                          ELSE "finish"]
    /\ UNCHANGED <<engineVars, selVars, storeVars, clientVars, runVars,
                   sideButBar, pgMain, pgChans, pgLoop, pgCount, pgSome,
                   pgBar>>

\* updateNotification <- true meets the case <-packageUpdateNotifier of
\* the feeding goroutine (the channel has no buffer).
PgNotify(d) ==
    /\ pgTask[d] = "notify" /\ pgLoop = "select"
    /\ pgSome' = TRUE
    /\ pgTask' = [pgTask EXCEPT ![d] = "finish"]
    /\ UNCHANGED <<engineVars, selVars, storeVars, clientVars, runVars,
                   sideButBar, pgMain, pgChans, pgLoop, pgCount, pgBar>>

\* processed <- true
PgFinished(d) ==
    /\ pgTask[d] = "finish" /\ pgChans.processed < BarDeps
    /\ pgChans' = [pgChans EXCEPT !.processed = @ + 1]
    /\ pgTask' = [pgTask EXCEPT ![d] = "done"]
    /\ UNCHANGED <<engineVars, selVars, storeVars, clientVars, runVars,
                   sideButBar, pgMain, pgLoop, pgCount, pgSome, pgBar>>

\* case packageName := <-currentPackage: bar.Send(ui.PackageName(name)).
\* A message sent to a program that has quit is dropped.
PgRecvName ==
    /\ pgLoop = "select" /\ pgChans.currentPackage > 0
    /\ pgChans' = [pgChans EXCEPT !.currentPackage = @ - 1]
    /\ pgBar' = IF pgBar.quit THEN pgBar
                ELSE [pgBar EXCEPT !.packageName = @ + 1]
    /\ UNCHANGED <<engineVars, selVars, storeVars, clientVars, runVars,
                   sideButBar, pgMain, pgTask, pgLoop, pgCount, pgSome>>

\* case <-processed: the counter is incremented and the percentage sent to
\* the bar; at totalDeps the goroutine goes on to done <- true.
PgRecvProcessed ==
    /\ pgLoop = "select" /\ pgChans.processed > 0
    /\ pgChans' = [pgChans EXCEPT !.processed = @ - 1]
    /\ pgCount' = pgCount + 1
    /\ pgBar' = IF pgBar.quit THEN pgBar
                ELSE progressUpdate(pgBar,
                         [Percentage |-> <<pgCount + 1, BarDeps>>,
                          CurrentPackageIndex |-> pgCount + 1])
    /\ pgLoop' = IF pgCount + 1 = BarDeps THEN "sendDone" ELSE "select"
    /\ UNCHANGED <<engineVars, selVars, storeVars, clientVars, runVars,
                   sideButBar, pgMain, pgTask, pgSome>>

\* bar.Run() returns once the program has quit.
PgRunReturns ==
    /\ pgMain = "run" /\ pgBar.quit
    /\ pgMain' = "waitDone"
    /\ UNCHANGED <<engineVars, selVars, storeVars, clientVars, runVars,
                   sideButBar, pgTask, pgChans, pgLoop, pgCount, pgSome,
                   pgBar>>

\* done <- true meets <-done of ProcessDependencies, which releases the
\* terminal and returns when nothing is new, and goes on to the selector
\* otherwise.
PgDone ==
    /\ pgMain = "waitDone" /\ pgLoop = "sendDone"
    /\ pgLoop' = "select"
    /\ pgMain' = IF pgSome THEN "selector" ELSE "returned"
    /\ UNCHANGED <<engineVars, selVars, storeVars, clientVars, runVars,
                   sideButBar, pgTask, pgChans, pgCount, pgSome, pgBar>>

BarNext ==
    \/ \E d \in BarJobs :
          PgStarted(d) \/ PgFetch(d) \/ PgNotify(d) \/ PgFinished(d)
    \/ PgRecvName
    \/ PgRecvProcessed
    \/ PgRunReturns
    \/ PgDone

BarSpec == BarInit /\ [][BarNext]_vars

----------------------------------------------------------------------------
(* The pipeline of one registry group (pipeline.go): the goroutine that    *)
(* ProcessByRegistry starts for the group has started the pipeline, has    *)
(* deferred its Stop, has called ProcessDependencies and waits for the     *)
(* collector of the results; Cleanup may be called from outside.           *)

\* number of dependencies of the group
PipeDeps == 2
\* workers of the pipeline
PipeWorkers == 2
PipeCallers == {"main", "cleanup"}

\* capacity of input and output (workers*2) and of errors (workers)
PipeCap(ch) == IF ch = "errors" THEN PipeWorkers ELSE PipeWorkers * 2

PipeInit ==
    /\ EngineIdle /\ SelIdle /\ StoreIdle /\ ClientIdle /\ RunIdle
    /\ BatchIdle /\ FnIdle /\ BarIdle
    /\ plCaller = [c \in PipeCallers |->
                      IF c = "main" THEN "waitDone" ELSE "off"]
    /\ plFeed = [pc |-> "send", next |-> 1]
    /\ plWorker = [w \in 1..PipeWorkers |-> "select"]
    /\ plChans = [ch \in {"input", "output", "errors"} |->
                     [len |-> 0, closed |-> FALSE, closes |-> 0]]
    /\ plColl = [results |-> "range", errors |-> "range", got |-> 0,
                 errs |-> 0]
    /\ plCtx = FALSE /\ plPanic = ""

\* The goroutine of ProcessDependencies: select { p.input <- dep;
\* <-p.ctx.Done(): return } for each dependency in turn; the loop over, or
\* on the return, the deferred close(p.input) is next.
PlFeed ==
    /\ plPanic = "" /\ plFeed.pc = "send"
    /\ \/ /\ plFeed.next > PipeDeps \/ plCtx
          /\ plFeed' = [plFeed EXCEPT !.pc = "close"]
          /\ UNCHANGED <<plChans, plPanic>>
       \/ /\ plFeed.next <= PipeDeps /\ plChans.input.closed
          /\ plPanic' = "send on closed channel"
          /\ UNCHANGED <<plChans, plFeed>>
       \/ /\ plFeed.next <= PipeDeps /\ ~plChans.input.closed
          /\ plChans.input.len < PipeCap("input")
          /\ plChans' = [plChans EXCEPT !.input.len = @ + 1]
          /\ plFeed' = [plFeed EXCEPT !.next = @ + 1]
          /\ UNCHANGED plPanic
    /\ UNCHANGED <<engineVars, selVars, storeVars, clientVars, runVars,
                   sideButPipe, plCaller, plWorker, plColl, plCtx>>

\* defer close(p.input) of that goroutine
PlFeedClose ==
    /\ plPanic = "" /\ plFeed.pc = "close"
    /\ plChans' = [plChans EXCEPT !.input.closed = TRUE,
                                  !.input.closes = @ + 1]
    /\ plPanic' = IF plChans.input.closed THEN "close of closed channel"
                  ELSE ""
    /\ plFeed' = [plFeed EXCEPT !.pc = "done"]
    /\ UNCHANGED <<engineVars, selVars, storeVars, clientVars, runVars,
                   sideButPipe, plCaller, plWorker, plColl, plCtx>>

\* The select of a worker: a dependency from p.input, the return (with
\* wg.Done) when the channel is closed and empty, or on p.ctx.Done().
PlWorkerRecv(w) ==
    /\ plPanic = "" /\ plWorker[w] = "select"
    /\ \/ /\ plChans.input.len > 0
          /\ plChans' = [plChans EXCEPT !.input.len = @ - 1]
          /\ plWorker' = [plWorker EXCEPT ![w] = "process"]
       \/ /\ (plChans.input.closed /\ plChans.input.len = 0) \/ plCtx
          /\ plWorker' = [plWorker EXCEPT ![w] = "exited"]
          /\ UNCHANGED plChans
    /\ UNCHANGED <<engineVars, selVars, storeVars, clientVars, runVars,
                   sideButPipe, plCaller, plFeed, plColl, plCtx, plPanic>>

\* processDependency and what the worker does with its result: an error
\* goes to p.errors when there is room (select with default), a
\* dependency to p.output; a send on a closed channel panics, and on
\* p.ctx.Done() the worker returns.
PlWorkerEmit(w) ==
    /\ plPanic = "" /\ plWorker[w] = "process"
    /\ \E ch \in {"errors", "output"} :
          \/ /\ plChans[ch].closed
             /\ plPanic' = "send on closed channel"
             /\ UNCHANGED <<plChans, plWorker>>
          \/ /\ ~plChans[ch].closed /\ plChans[ch].len < PipeCap(ch)
             /\ plChans' = [plChans EXCEPT ![ch].len = @ + 1]
             /\ plWorker' = [plWorker EXCEPT ![w] = "select"]
             /\ UNCHANGED plPanic
          \/ /\ ch = "errors"
             /\ plWorker' = [plWorker EXCEPT ![w] = "select"]
             /\ UNCHANGED <<plChans, plPanic>>
          \/ /\ plCtx
             /\ plWorker' = [plWorker EXCEPT ![w] = "exited"]
             /\ UNCHANGED <<plChans, plPanic>>
    /\ UNCHANGED <<engineVars, selVars, storeVars, clientVars, runVars,
                   sideButPipe, plCaller, plFeed, plColl, plCtx>>

\* for result := range resultChan, and the deferred close(done) when the
\* channel is closed and empty
PlCollect ==
    /\ plPanic = "" /\ plColl.results = "range"
    /\ \/ /\ plChans.output.len > 0
          /\ plChans' = [plChans EXCEPT !.output.len = @ - 1]
          /\ plColl' = [plColl EXCEPT !.got = @ + 1]
       \/ /\ plChans.output.closed /\ plChans.output.len = 0
          /\ plColl' = [plColl EXCEPT !.results = "done"]
          /\ UNCHANGED plChans
    /\ UNCHANGED <<engineVars, selVars, storeVars, clientVars, runVars,
                   sideButPipe, plCaller, plFeed, plWorker, plCtx, plPanic>>

\* for err := range errorChan
PlCollectErrors ==
    /\ plPanic = "" /\ plColl.errors = "range"
    /\ \/ /\ plChans.errors.len > 0
          /\ plChans' = [plChans EXCEPT !.errors.len = @ - 1]
          /\ plColl' = [plColl EXCEPT !.errs = @ + 1]
       \/ /\ plChans.errors.closed /\ plChans.errors.len = 0
          /\ plColl' = [plColl EXCEPT !.errors = "done"]
          /\ UNCHANGED plChans
    /\ UNCHANGED <<engineVars, selVars, storeVars, clientVars, runVars,
                   sideButPipe, plCaller, plFeed, plWorker, plCtx, plPanic>>

\* <-done of the goroutine of the group: the results are added to the
\* global ones, and the function returns into its deferred
\* pipeline.Stop().
PlDone ==
    /\ plPanic = "" /\ plCaller["main"] = "waitDone"
    /\ plColl.results = "done"
    /\ plCaller' = [plCaller EXCEPT !["main"] = "closeInput"]
    /\ UNCHANGED <<engineVars, selVars, storeVars, clientVars, runVars,
                   sideButPipe, plFeed, plWorker, plChans, plColl, plCtx,
                   plPanic>>

\* Cleanup is called: pipeline.Stop() for the pipeline of the registry.
PlCleanup ==
    /\ plPanic = "" /\ plCaller["cleanup"] = "off"
    /\ plCaller' = [plCaller EXCEPT !["cleanup"] = "closeInput"]
    /\ UNCHANGED <<engineVars, selVars, storeVars, clientVars, runVars,
                   sideButPipe, plFeed, plWorker, plChans, plColl, plCtx,
                   plPanic>>

\* Stop, called by c: close(p.input)
StopCloseInput(c) ==
    /\ plPanic = "" /\ plCaller[c] = "closeInput"
    /\ plChans' = [plChans EXCEPT !.input.closed = TRUE,
                                  !.input.closes = @ + 1]
    /\ plPanic' = IF plChans.input.closed THEN "close of closed channel"
                  ELSE ""
    /\ plCaller' = [plCaller EXCEPT ![c] = "wait"]
    /\ UNCHANGED <<engineVars, selVars, storeVars, clientVars, runVars,
                   sideButPipe, plFeed, plWorker, plColl, plCtx>>

\* Stop: p.wg.Wait() returns when every worker has returned.
StopWait(c) ==
    /\ plPanic = "" /\ plCaller[c] = "wait"
    /\ \A w \in 1..PipeWorkers : plWorker[w] = "exited"
    /\ plCaller' = [plCaller EXCEPT ![c] = "closeRest"]
    /\ UNCHANGED <<engineVars, selVars, storeVars, clientVars, runVars,
                   sideButPipe, plFeed, plWorker, plChans, plColl, plCtx,
                   plPanic>>

\* Stop: close(p.output); close(p.errors); p.cancel().  The first close of
\* a closed channel panics.  With Stop the goroutine of the group returns.
StopCloseRest(c) ==
    /\ plPanic = "" /\ plCaller[c] = "closeRest"
    /\ IF plChans.output.closed
       THEN /\ plChans' = [plChans EXCEPT !.output.closes = @ + 1]
            /\ plPanic' = "close of closed channel"
            /\ UNCHANGED <<plCtx, plCaller>>
       ELSE IF plChans.errors.closed
       THEN /\ plChans' = [plChans EXCEPT !.output.closed = TRUE,
                                          !.output.closes = @ + 1,
                                          !.errors.closes = @ + 1]
            /\ plPanic' = "close of closed channel"
            /\ UNCHANGED <<plCtx, plCaller>>
       ELSE /\ plChans' = [plChans EXCEPT !.output.closed = TRUE,
                                          !.output.closes = @ + 1,
                                          !.errors.closed = TRUE,
                                          !.errors.closes = @ + 1]
            /\ plCtx' = TRUE
            /\ plCaller' = [plCaller EXCEPT ![c] = "returned"]
            /\ UNCHANGED plPanic
    /\ UNCHANGED <<engineVars, selVars, storeVars, clientVars, runVars,
                   sideButPipe, plFeed, plWorker, plColl>>

\* the steps of the goroutines of the pipeline and of its callers
PipeRun ==
    \/ PlFeed
    \/ PlFeedClose
    \/ \E w \in 1..PipeWorkers : PlWorkerRecv(w) \/ PlWorkerEmit(w)
    \/ PlCollect
    \/ PlCollectErrors
    \/ PlDone
    \/ \E c \in PipeCallers :
          StopCloseInput(c) \/ StopWait(c) \/ StopCloseRest(c)

PipeNext == PipeRun \/ PlCleanup

PipeSpec == PipeInit /\ [][PipeNext]_vars

\* Every goroutine that can take a step takes one in the end; nothing
\* obliges anybody to call Cleanup.
PipeLiveSpec == PipeSpec /\ WF_vars(PipeRun)

----------------------------------------------------------------------------
(* Properties of the channels, the cache entries and the parser.           *)

\* C35: the goroutine that closes the two channels closes one only after
\* every dependency of the call has been launched and its task has
\* finished both of its sends, so that no task sends on a closed channel.
C35_CloseAfterEverySend ==
    /\ (processed.closed \/ currentPackage.closed) =>
          \A d \in Deps : Returned(d)
    /\ \A d \in Deps :
          tpc[d] = "sendStarted" => ~currentPackage.closed

\* C37: once a task has written the ETag of the registry document it
\* fetched, the on-disk store that a later run starts from holds, next to
\* that ETag, a Versions entry that decodes to the versions of the same
\* document; also between the two writes and after a failed Versions save.
C37_EtagImpliesVersions ==
    \A d \in Deps :
        ( /\ loc[d].gets = 1
          /\ tpc[d] \notin {"sendStarted", "lookup", "get", "setEtag"}
          /\ loc[d].err \notin {"get", "cacheEtag", "deadline"}
          /\ db[EtagKey(d)] = <<EtagBytes(RegistryEtag)>> )
        => /\ db[VersionsKey(d)] # <<>>
           /\ tryDecompress(db[VersionsKey(d)][1]).kind = "gob"
           /\ \A i \in 1..Len(RegistryVersions) :
                 \E e \in tryDecompress(db[VersionsKey(d)][1]).m :
                     e.Version = VersionStr(RegistryVersions[i])

\* C36: each of the two channels is closed at most once in a call of
\* FetchNewVersionsBatch (by the function itself and by the closing
\* goroutines of the FetchNewVersions calls it makes together), and no task
\* of a batch sends on a channel that was closed.
C36_ClosedAtMostOnce ==
    /\ \A c \in {"processed", "currentPackage"} :
          bChans # <<>> => bChans[c].closes <= 1
    /\ bPanic = ""

\* C31: a Get that is served from the on-disk store returns exactly the
\* payload b of the Set whose bytes it read, for every payload, the ones
\* whose first byte has the value of the marker included.
C31_MarkerRoundTrip ==
    (getPc \in {"store", "done"} /\ getVal.fromDisk)
    => \A c \in Callers :
          (setPc[c] = "ok" /\ getVal.read = compressIfBeneficial(setVal[c]))
          => getVal.data = setVal[c]

\* C38: when no Set and no Get is in flight, the in-memory entry of the
\* key, if there is one, is what the on-disk store holds for the key.
C38_MemoryMatchesDisk ==
    ( /\ getPc \in {"call", "done", "notFound", "failed"}
      /\ \A c \in Callers : setPc[c] \in {"call", "ok", "failed"} )
    => (memCache[SetKey] # <<>> => memCache[SetKey] = OnDisk(SetKey))

\* C32: whatever the configured --timeout, the deadline of the context of
\* a task is at most 30 seconds after the task has created it.
C32_DeadlineWithin30s ==
    (fnPc = "done" /\ fnIn.fn = "timeout") => fnOut <= 30

\* a timeout of more than 30 seconds was configured and the task got 30
C32_Witness ==
    fnPc = "done" /\ fnIn.fn = "timeout" /\ fnIn.arg = 31 /\ fnOut = 30

\* The strings of ParseInputs of the form the contract of the parser
\* calls valid: numeric components without leading zeros, and after the
\* patch an optional prerelease and an optional build.
WellFormedInputs ==
    LET Nums == { <<"0">>, <<"1">>, <<"2">>, <<"3">>, <<"1", "1">> }
        After == { <<>>, <<"-", "a">>, <<"+", "b">>,
                   <<"-", "a", "+", "b">>, <<"-", "1", ".", "a">> }
        Cores == Nums
                 \cup { a \o <<".">> \o b : a, b \in Nums }
                 \cup { a \o <<".">> \o b \o <<".">> \o c \o t :
                        a, b, c \in Nums, t \in After }
    IN  { v \o op \o core :
            v \in {<<>>, <<"v">>},
            op \in {<<>>, <<"^">>, <<"~">>, <<">">>, <<">", "=">>},
            core \in Cores }

\* C34: the parser reports a string valid exactly when it is of that form,
\* and 1.2.3, v1.2.3 and ^1.2.3 are valid with major 1, minor 2, patch 3.
C34_ValidIffWellFormed ==
    (fnPc = "done" /\ fnIn.fn = "parse")
    => /\ fnOut.ok <=> fnIn.arg \in WellFormedInputs
       /\ fnIn.arg \in { <<"1", ".", "2", ".", "3">>,
                         <<"v", "1", ".", "2", ".", "3">>,
                         <<"^", "1", ".", "2", ".", "3">> }
          => /\ fnOut.ok
             /\ fnOut.major = <<"1">> /\ fnOut.minor = <<"2">>
             /\ fnOut.patch = <<"3">>

\* C33: the percentages the bar is sent never decrease; the bar reaches
\* 100% (it is done) only when every dependency has sent its finished
\* event and all of them were counted; a bar that is done has quit, and
\* ProcessDependencies goes on only after that.
C33_ProgressMonotone ==
    /\ \A i, j \in 1..Len(pgBar.sent) :
          i < j => pgBar.sent[i][1] * pgBar.sent[j][2]
                      <= pgBar.sent[j][1] * pgBar.sent[i][2]
    /\ pgBar.done =>
          /\ pgCount = BarDeps
          /\ \A d \in BarJobs : pgTask[d] = "done"
          /\ pgBar.quit
    /\ pgMain \in {"waitDone", "selector", "returned"} => pgBar.done

\* the bar is done and the selector has the control
C33_Witness ==
    /\ pgMain = "selector" /\ pgBar.done /\ Len(pgBar.sent) = BarDeps

\* C39: the input channel of a pipeline, and its output and errors
\* channels, are closed at most once by the goroutine of
\* ProcessDependencies, Stop and the Stop of Cleanup together.
C39_PipelineClosedOnce ==
    \A ch \in {"input", "output", "errors"} : plChans[ch].closes <= 1

\* C40: the goroutine that ProcessByRegistry starts for a registry group
\* returns in the end, so that ProcessByRegistry does.
C40_ProcessByRegistryReturns ==
    <>(plCaller["main"] = "returned")
=============================================================================
